---- MODULE Spec2Model ----
(***************************************************************************)
(* The host side of the context-scoped RPC bridge (src/src/host.ts):       *)
(* tool registration, minting of signed context tokens, and the socket     *)
(* "data" handler that splits a chunk into lines, parses each line,        *)
(* dispatches it through the JSON-RPC server to the wrapped handler and    *)
(* writes the response.  The client and the byte stream (how the written   *)
(* lines are cut into data chunks) are the environment.  Further sections  *)
(* hold the host's lifecycle, the host with several connections, the       *)
(* launch configuration, and the bridge process (src/src/index.ts).        *)
(***************************************************************************)
EXTENDS Integers, Sequences, FiniteSets, TLC

(***************************************************************************)
(* Bounds of the model.                                                    *)
(***************************************************************************)
MaxSend == 2        \* lines the client writes on the connection
MaxStart == 3       \* start() calls made on the host
MaxStop == 2        \* stop() calls made on the host
MaxCall == 3        \* tool invocations made on the bridge
MaxChunk == 2       \* "data" events on the connections of the host
MaxReg == 4         \* registerTool calls of the registry specification
SchemaDepth == 2    \* nesting of wrappers and objects in an inputSchema
MaxConn == 1        \* connections accepted by the host of the lifecycle
MaxBundle == 1      \* getMCPServerEnvVars calls of the bundle specification

(***************************************************************************)
(* Input sets.                                                             *)
(***************************************************************************)
ToolNames == {"toolA", "toolB"}
FunctionNames == {"fnA", "fnB"}
Secrets == {"hostSecret", "otherSecret", "thirdSecret"}

\* JavaScript values used as contexts: [kind, val].  "undefined" and "date"
\* are not JSON values; the others are.
Undefined == [kind |-> "undefined", val |-> ""]
ContextValues ==
  { Undefined,
    [kind |-> "null", val |-> ""],
    [kind |-> "string", val |-> "tenant-1"],
    [kind |-> "object", val |-> "userId:1"],
    [kind |-> "object", val |-> "userId:2"],
    [kind |-> "date", val |-> "2024-01-01T00:00:00.000Z"] }
IsJsonValue(c) == c.kind \in {"null", "string", "object"}
\* the bundles the application asks for: a user limited to one tool and an
\* admin with all tools, <<tool names, context>>
BundleRequests ==
  { << {"toolA"}, [kind |-> "object", val |-> "userId:1"] >>,
    << {"toolA", "toolB"}, [kind |-> "object", val |-> "userId:2"] >> }
\* the registerTool calls the application makes: <<toolName, functionName>>
Descriptors == { <<"toolA", "fnA">>, <<"toolB", "fnB">> }

VARIABLES
  secret,       \* McpHost.secret
  toolsConfig,  \* McpHost.toolsConfig: toolName -> functionName ("" = absent)
  methods,      \* JSONRPCServer method table: functionName -> handler ("" = absent)
  minted,       \* tokens handed out: [tools, context, CONTEXT_TOKEN]
  sent,         \* lines the client has written, in order
  nDel,         \* how many of them have been delivered completely
  carry,        \* TRUE when the head of line nDel+1 was delivered already
  tasks,        \* one entry per "data" event: [lines, pos]
  invocations,  \* handler invocations: request, context passed, outcome
  written,      \* responses written on the socket, in order
  conn,         \* "open", or "closedByHost" once the host ends the socket
  jwtCase,      \* sign/verify scenario of the token specification
  host,         \* McpHost lifecycle: isStarted, socket servers, start/stop calls
  bridge,       \* bridge process: tool invocations and the RPC client
  proc,         \* bridge process: start-up position, environment, socket, exit
  conns,        \* host with several connections: per-socket tasks and writes
  registrations,\* the registerTool calls made so far, in order
  launch,       \* getMCPServerConfig scenario: arguments and returned value
  schema        \* registerTool with a Zod inputSchema: the schema and the outcome

vars == << secret, toolsConfig, methods, minted, sent, nDel, carry,
           tasks, invocations, written, conn, jwtCase, host, bridge,
           proc, conns, registrations, launch, schema >>

(***************************************************************************)
(* ContextToken: jwt.sign({context}, secret, {noTimestamp: true}) and      *)
(* jwt.verify(token, secret).                                              *)
(***************************************************************************)
\* JSON.stringify of a context value: a Date goes through toJSON and comes
\* out as a string, everything JSON is kept.
JsonValueOf(c) ==
  IF c.kind = "date" THEN [kind |-> "string", val |-> c.val] ELSE c

\* JSON.stringify({context: c}): a key whose value is undefined is dropped.
JsonStringifyPayload(c) ==
  IF c.kind = "undefined"
  THEN [hasContext |-> FALSE, context |-> [kind |-> "null", val |-> ""]]
  ELSE [hasContext |-> TRUE, context |-> JsonValueOf(c)]

\* JSON.parse(payload).context
DecodedContext(payload) ==
  IF payload.hasContext THEN payload.context ELSE Undefined

\* HMAC of the payload under a key: equal only for equal key and payload.
Hmac(key, payload) == [key |-> key, over |-> payload]

\* A first positional parameter as it arrives: a string shaped like a JWT
\* (t = "jwt"), any other string (t = "str"), or a non-string (t = "num").
NoPayload == JsonStringifyPayload(Undefined)
MalformedString ==
  [t |-> "str", payload |-> NoPayload, sig |-> Hmac("", NoPayload)]
NonString ==
  [t |-> "num", payload |-> NoPayload, sig |-> Hmac("", NoPayload)]

createJWT(sec, context) ==
  [t |-> "jwt",
   payload |-> JsonStringifyPayload(context),
   sig |-> Hmac(sec, JsonStringifyPayload(context))]

AuthFailure(reason) ==
  [ok |-> FALSE, context |-> Undefined,
   error |-> "Invalid JWT token: " \o reason]

\* verification that decodes the payload without checking the signature
verifyJWT_decodeOnly(sec, token) ==
  IF token.t # "jwt" THEN AuthFailure("jwt malformed")
  ELSE [ok |-> TRUE, context |-> DecodedContext(token.payload), error |-> ""]

verifyJWT(sec, token) ==
  IF token.t # "jwt" THEN AuthFailure("jwt malformed")
  ELSE IF token.sig # Hmac(sec, token.payload)
       THEN AuthFailure("invalid signature")
       ELSE [ok |-> TRUE, context |-> DecodedContext(token.payload),
             error |-> ""]

(***************************************************************************)
(* ToolRegistry: registerTool and getMCPServerEnvVars.                     *)
(***************************************************************************)
Absent == ""

\* registerTool(toolName, {functionName, ...}, handler): the descriptor is
\* stored under toolName, replacing what was stored there, and the wrapped
\* handler is added to the JSON-RPC server under functionName, replacing the
\* method of that name.  The handler passed in the call is named by the tool
\* it was passed for.  registrations records the call.
\* a registerTool that adds the method only while the host is not started
RegisterTool_beforeStartOnly(toolName, functionName) ==
  /\ toolsConfig' = [toolsConfig EXCEPT ![toolName] = functionName]
  /\ methods' = IF host.isStarted THEN methods
                ELSE [methods EXCEPT ![functionName] = toolName]
  /\ registrations' = Append(registrations, << toolName, functionName >>)
  /\ UNCHANGED << schema, host, bridge, secret, proc, conns, launch, minted, sent,
                  nDel, carry, tasks, invocations, written, conn, jwtCase >>

\* a registerTool that keeps the method already added under functionName
RegisterTool_keepsFirst(toolName, functionName) ==
  /\ toolsConfig' = [toolsConfig EXCEPT ![toolName] = functionName]
  /\ methods' = IF methods[functionName] # Absent THEN methods
                ELSE [methods EXCEPT ![functionName] = toolName]
  /\ registrations' = Append(registrations, << toolName, functionName >>)
  /\ UNCHANGED << schema, host, bridge, secret, proc, conns, launch, minted, sent,
                  nDel, carry, tasks, invocations, written, conn, jwtCase >>

\* a registerTool whose effect shows in the bundle returned before, as it
\* would if the bundle held the registry and not a serialized copy
RegisterTool_updatesBundles(toolName, functionName) ==
  /\ toolsConfig' = [toolsConfig EXCEPT ![toolName] = functionName]
  /\ methods' = [methods EXCEPT ![functionName] = toolName]
  /\ registrations' = Append(registrations, << toolName, functionName >>)
  /\ launch' =
       IF launch.called /\ ~launch.result.threw
       THEN [launch EXCEPT !.result.env.TOOLS =
               { << t, [title |-> t, description |-> t,
                        functionName |-> toolsConfig'[t],
                        inputSchema |-> "object"] >> :
                   t \in { n \in launch.tools : toolsConfig'[n] # Absent } }]
       ELSE launch
  /\ UNCHANGED << schema, host, bridge, secret, proc, conns, minted, sent,
                  nDel, carry, tasks, invocations, written, conn, jwtCase >>

RegisterTool(toolName, functionName) ==
  /\ toolsConfig' = [toolsConfig EXCEPT ![toolName] = functionName]
  /\ methods' = [methods EXCEPT ![functionName] = toolName]
  /\ registrations' = Append(registrations, << toolName, functionName >>)
  /\ UNCHANGED << schema, host, bridge, secret, proc, conns, launch, minted, sent,
                  nDel, carry, tasks, invocations, written, conn, jwtCase >>

\* The application of the connection and lifecycle specifications registers
\* each tool once, with its own function name.
RegisterOnce(d) ==
  /\ toolsConfig[d[1]] = Absent
  /\ RegisterTool(d[1], d[2])

\* this.toolsConfig[toolName] on a plain object: the stored descriptor, a
\* member inherited from Object.prototype, or undefined.
InheritedNames == {"constructor"}
InheritedFunction == "[Function]"
Lookup(config, name) ==
  IF name \in DOMAIN config /\ config[name] # Absent THEN config[name]
  ELSE IF name \in InheritedNames THEN InheritedFunction
  ELSE Absent

\* a filter that returns the whole registry
FilteredTools_wholeRegistry(tools, config) ==
  [t \in { n \in DOMAIN config : Lookup(config, n) # Absent } |->
     Lookup(config, t)]

\* filteredTools of getMCPServerEnvVars: the requested names whose lookup is
\* truthy, each with what the lookup gave.
FilteredTools(tools, config) ==
  [t \in { n \in tools : Lookup(config, n) # Absent } |-> Lookup(config, t)]

\* The descriptor stored for a tool: {title, description, functionName,
\* inputSchema}, the schema already in JSON Schema form.
ToolProperties(toolName, functionName) ==
  [title |-> toolName, description |-> toolName,
   functionName |-> functionName, inputSchema |-> "object"]

\* JSON.stringify(filteredTools): the members of the object, those holding
\* a function left out.
JsonStringifyTools(filtered) ==
  { << t, ToolProperties(t, filtered[t]) >> :
      t \in { n \in DOMAIN filtered : filtered[n] # InheritedFunction } }

\* JSON.parse of a TOOLS value (the bridge reads it this way).
JsonParseTools(json) ==
  [t \in { p[1] : p \in json } |-> (CHOOSE p \in json : p[1] = t)[2]]

\* The value getMCPServerEnvVars(tools, context) returns.
EnvVars(tools, context) ==
  [CONTEXT_TOKEN |-> createJWT(secret, context),
   PIPE |-> "pipePath",
   TOOLS |-> JsonStringifyTools(FilteredTools(tools, toolsConfig))]

\* getMCPServerEnvVars(tools, context): the host's state is left alone; the
\* token handed out is remembered with the arguments it was minted for.
GetMCPServerEnvVars(tools, context) ==
  /\ minted' = minted \cup
       { [tools |-> tools,
          context |-> context,
          CONTEXT_TOKEN |-> EnvVars(tools, context).CONTEXT_TOKEN] }
  /\ minted' # minted
  /\ UNCHANGED << schema, host, bridge, secret, proc, conns, registrations, launch,
                  toolsConfig, methods, sent, nDel, carry,
                  tasks, invocations, written, conn, jwtCase >>

(***************************************************************************)
(* zodToJsonSchema (src/src/host.ts:35-136) and the part of registerTool    *)
(* that applies it.  A value given as inputSchema, or found as a field of   *)
(* an object schema, is [typeName, genuine, shape, innerType]: typeName is  *)
(* value._def.typeName ("" when the value has no _def), genuine tells      *)
(* whether the value is an instance made by the library (it has its        *)
(* methods and, for an object, its shape) or a plain object that only      *)
(* carries the tag, shape is the list of the declared fields in            *)
(* declaration order, and innerType is what a wrapper wraps.               *)
(***************************************************************************)
FieldKeys == {"name", "age"}
NoTypeName == ""
SchemaNode(typeName, genuine, shape, innerType) ==
  [typeName |-> typeName, genuine |-> genuine, shape |-> shape,
   innerType |-> innerType]

\* The values that are not built from others: z.string(), z.number(),
\* z.date() (a kind the conversion does not know), a JSON Schema fragment
\* such as {type: "string"} (no _def), and plain objects that carry only
\* the tag of a string or of an object.
SchemaLeaves ==
  { SchemaNode("ZodString", TRUE, << >>, << >>),
    SchemaNode("ZodNumber", TRUE, << >>, << >>),
    SchemaNode("ZodDate", TRUE, << >>, << >>),
    SchemaNode(NoTypeName, FALSE, << >>, << >>),
    SchemaNode("ZodString", FALSE, << >>, << >>),
    SchemaNode("ZodObject", FALSE, << >>, << >>) }

\* the shapes z.object({...}) can be given: up to two fields with distinct
\* keys, in either order
Shapes(values) ==
  { << >> }
    \cup { << [key |-> k, value |-> v] >> : k \in FieldKeys, v \in values }
    \cup { << [key |-> k[1], value |-> v], [key |-> k[2], value |-> w] >> :
             k \in { p \in FieldKeys \X FieldKeys : p[1] # p[2] },
             v \in values, w \in values }

RECURSIVE SchemaNodes(_)
SchemaNodes(depth) ==
  IF depth = 0 THEN SchemaLeaves
  ELSE LET below == SchemaNodes(depth - 1)
       IN  SchemaLeaves
             \cup { SchemaNode(w, TRUE, << >>, << n >>) :
                      w \in {"ZodOptional", "ZodDefault"},
                      n \in { b \in below : b.genuine } }
             \cup { SchemaNode("ZodObject", TRUE, s, << >>) :
                      s \in Shapes(below) }

\* isZodSchema(obj): obj._def.typeName is a string that starts with "Zod"
isZodSchema(obj) ==
  obj.typeName \in {"ZodObject", "ZodString", "ZodNumber", "ZodDate",
                    "ZodOptional", "ZodDefault"}

\* value.isOptional() of a library instance: whether undefined is accepted
IsOptional(value) == value.typeName \in {"ZodOptional", "ZodDefault"}

\* A JSON Schema value; "absent" stands for a member that is not set.
JsonSchema(type, properties, required, additionalProperties, default) ==
  [type |-> type, properties |-> properties, required |-> required,
   additionalProperties |-> additionalProperties, default |-> default]

\* What a conversion gives: << >> when it threw a TypeError, else the
\* JSON Schema it returned.
Thrown == << >>

\* a required list that names every declared key
RequiredKeys_all(shape) ==
  [i \in 1..Len(shape) |-> shape[i].key]

\* required of the object case: the keys pushed in declaration order, one
\* for each field whose isOptional() is false
RequiredKeys(shape) ==
  LET NotOptional(entry) == ~IsOptional(entry.value)
      kept == SelectSeq(shape, NotOptional)
  IN  [i \in 1..Len(kept) |-> kept[i].key]

RECURSIVE zodToJsonSchema(_)
\* processSchema: schema._def.typeName of a value without _def throws; the
\* object case walks Object.entries(schema.shape), converting each field
\* and then calling its isOptional(); wrappers convert what they wrap; a
\* kind that is not listed is warned about and becomes {type: "string"}.
zodToJsonSchema(zodSchema) ==
  IF zodSchema.typeName = NoTypeName THEN Thrown
  ELSE IF zodSchema.typeName = "ZodObject"
  THEN IF ~zodSchema.genuine THEN Thrown
       ELSE IF \E i \in 1..Len(zodSchema.shape) :
                 \/ zodToJsonSchema(zodSchema.shape[i].value) = Thrown
                 \/ ~zodSchema.shape[i].value.genuine
       THEN Thrown
       ELSE << JsonSchema("object",
                 [k \in { zodSchema.shape[i].key : i \in 1..Len(zodSchema.shape) }
                    |-> LET i == CHOOSE j \in 1..Len(zodSchema.shape) :
                                   zodSchema.shape[j].key = k
                        IN  zodToJsonSchema(zodSchema.shape[i].value)[1]],
                 RequiredKeys(zodSchema.shape), "false", "absent") >>
  ELSE IF zodSchema.typeName = "ZodNumber"
  THEN << JsonSchema("number", << >>, << >>, "absent", "absent") >>
  ELSE IF zodSchema.typeName = "ZodOptional"
  THEN zodToJsonSchema(zodSchema.innerType[1])
  ELSE IF zodSchema.typeName = "ZodDefault"
  THEN LET innerSchema == zodToJsonSchema(zodSchema.innerType[1])
       IN  IF innerSchema = Thrown THEN Thrown
           ELSE << [innerSchema[1] EXCEPT !.default = "defaultValue()"] >>
  ELSE << JsonSchema("string", << >>, << >>, "absent", "absent") >>

\* The registerTool scenario of the schema specification: the inputSchema
\* given, and what the call has done.
IdleSchema ==
  [inputSchema |-> SchemaNode("ZodString", TRUE, << >>, << >>),
   called |-> FALSE, threw |-> FALSE, rpcHandler |-> FALSE,
   toolsConfig |-> << >>, method |-> FALSE]

\* registerTool(toolName, {..., inputSchema}, handler): the handler is put
\* in rpcHandlers, a Zod inputSchema is converted, the descriptor is stored
\* in toolsConfig and the wrapped handler is added as an RPC method.  A
\* conversion that throws ends the call there.
RegisterToolWithSchema ==
  /\ ~schema.called
  /\ LET converted == IF isZodSchema(schema.inputSchema)
                      THEN zodToJsonSchema(schema.inputSchema)
                      ELSE << schema.inputSchema >>
     IN  schema' =
           IF converted = Thrown
           THEN [schema EXCEPT !.called = TRUE, !.threw = TRUE,
                               !.rpcHandler = TRUE]
           ELSE [schema EXCEPT !.called = TRUE, !.rpcHandler = TRUE,
                               !.toolsConfig = converted, !.method = TRUE]
  /\ UNCHANGED << host, bridge, secret, proc, conns, registrations, launch,
                  toolsConfig, methods, minted, sent, nDel, carry,
                  tasks, invocations, written, conn, jwtCase >>

(***************************************************************************)
(* getMCPServerConfig(name, tools, context, options): the launch command   *)
(* of the bridge and its environment.  The repository holds two builds of  *)
(* the host, src/src/host.ts and src/dist/host.js; they differ in this     *)
(* function only, so the build is part of the scenario.                    *)
(***************************************************************************)
\* options: command is left out, a string, or an array of strings; args is
\* left out or an array of strings; debug is left out, false or true
ConfigOptions ==
  [command :
     { [kind |-> "undefined", s |-> "", items |-> << >>],
       [kind |-> "string", s |-> "", items |-> << >>],
       [kind |-> "string", s |-> "node", items |-> << >>],
       [kind |-> "array", s |-> "", items |-> << >>],
       [kind |-> "array", s |-> "", items |-> << "python" >>],
       [kind |-> "array", s |-> "", items |-> << "python", "-m", "bridge" >>] },
   args :
     { [given |-> FALSE, items |-> << >>],
       [given |-> TRUE, items |-> << >>],
       [given |-> TRUE, items |-> << "--verbose" >>] },
   debug : {"undefined", "false", "true"}]

DefaultCommand == "npx"
DefaultArgs == << "-y", "@botanicastudios/mcp-host-rpc" >>

\* let command = "npx"; let args = [...]; if (options?.command) { ... }:
\* undefined and the empty string are falsy, every array is truthy
ResolveCommand(options) ==
  IF \/ options.command.kind = "array"
     \/ options.command.kind = "string" /\ options.command.s # ""
  THEN LET base ==
             IF options.command.kind = "array"
             THEN IF Len(options.command.items) > 0
                  THEN [command |-> Head(options.command.items),
                        args |-> Tail(options.command.items)]
                  ELSE [command |-> DefaultCommand, args |-> DefaultArgs]
             ELSE [command |-> options.command.s, args |-> << >>]
       IN  [base EXCEPT !.args = IF options.args.given
                                 THEN @ \o options.args.items ELSE @]
  ELSE [command |-> DefaultCommand, args |-> DefaultArgs]

\* if (options?.debug) { envVars.DEBUG = "1"; }: only the dist build has the
\* statement
DebugEnv(build, options, envVars) ==
  IF build = "dist" /\ options.debug = "true"
  THEN envVars @@ ("DEBUG" :> "1")
  ELSE envVars

NoConfig ==
  [threw |-> FALSE, error |-> "", name |-> "", type |-> "",
   command |-> "", args |-> << >>, env |-> << >>]

\* the server entry of the returned object, or the error thrown
MCPServerConfig(build, name, tools, context, options) ==
  IF name = ""
  THEN [NoConfig EXCEPT !.threw = TRUE,
                        !.error = "Server name must be a non-empty string"]
  ELSE LET r == ResolveCommand(options)
       IN  [threw |-> FALSE, error |-> "", name |-> name, type |-> "stdio",
            command |-> r.command, args |-> r.args,
            env |-> DebugEnv(build, options, EnvVars(tools, context))]

IdleLaunch ==
  [build |-> "src", name |-> "server", tools |-> {},
   context |-> Undefined,
   options |-> [command |-> [kind |-> "undefined", s |-> "", items |-> << >>],
                args |-> [given |-> FALSE, items |-> << >>],
                debug |-> "undefined"],
   called |-> FALSE, result |-> NoConfig]

\* The application calls getMCPServerConfig with the arguments of the
\* scenario; the host's state is left alone.
GetMCPServerConfig ==
  /\ ~launch.called
  /\ launch' = [launch EXCEPT
       !.called = TRUE,
       !.result = MCPServerConfig(launch.build, launch.name, launch.tools,
                                  launch.context, launch.options)]
  /\ UNCHANGED << schema, host, bridge, secret, proc, conns, registrations,
                  toolsConfig, methods, minted, sent, nDel, carry, tasks,
                  invocations, written, conn, jwtCase >>

(***************************************************************************)
(* The client and the byte stream.                                         *)
(***************************************************************************)
NullId == 0

Request(id, method, p0) ==
  [kind |-> "req", id |-> id, method |-> method, p0 |-> p0]
\* a line that is not JSON
Garbage ==
  [kind |-> "garbage", id |-> NullId, method |-> "", p0 |-> MalformedString]

\* What a client can put first in params: a token it was handed, a token it
\* signed itself with another secret, a string that is no token, a number.
ForgedToken ==
  createJWT("otherSecret", [kind |-> "object", val |-> "userId:2"])
BadParams == { ForgedToken, MalformedString, NonString }
\* The requests a client sends: any method with a token it was handed, and
\* one method with each kind of bad first parameter.
ClientCalls ==
  { << method, b.CONTEXT_TOKEN >> : method \in FunctionNames, b \in minted }
    \cup { << "fnA", p0 >> : p0 \in BadParams }

\* The client writes one line: JSON.stringify(request) + "\n", or a line
\* that is not JSON.  Request ids are the position in the stream.
ClientSend(msg) ==
  /\ conn = "open"
  /\ Len(sent) < MaxSend
  /\ sent' = Append(sent, msg)
  /\ UNCHANGED << schema, host, bridge, secret, proc, conns, registrations, launch,
                  toolsConfig, methods, minted, nDel,
                  carry, tasks, invocations, written, conn, jwtCase >>

ClientSendRequest ==
  \E call \in ClientCalls :
    ClientSend(Request(Len(sent) + 1, call[1], call[2]))

ClientSendGarbage == ClientSend(Garbage)

\* data.toString().split("\n") of a chunk that completes n lines and then
\* holds the head of the next one (split) or ends with the newline.
EmptySegment == [part |-> "empty", msg |-> Garbage]
ChunkSegments(n, split) ==
  [i \in 1..n |->
     [part |-> IF i = 1 /\ carry THEN "tail" ELSE "whole",
      msg |-> sent[nDel + i]]]
  \o << IF split THEN [part |-> "head", msg |-> sent[nDel + n + 1]]
        ELSE EmptySegment >>

\* .filter((line) => line.trim())
NonBlank(segment) == segment.part # "empty"
SplitLines(segments) == SelectSeq(segments, NonBlank)

(***************************************************************************)
(* HostRpcServer: the wrapped handler, the JSON-RPC server's receive and    *)
(* the loop over the lines of one "data" event.                            *)
(***************************************************************************)
ParseErrorCode == -32700
MethodNotFoundCode == -32601
DefaultErrorCode == 0

ErrorResponse(id, code, message) ==
  [id |-> id, kind |-> "error", code |-> code, message |-> message,
   result |-> 0]
\* the result of invocation n is named by n
ResultResponse(id, n) ==
  [id |-> id, kind |-> "result", code |-> 0, message |-> "", result |-> n]

\* the errorResponse object of the catch block
ParseErrorResponse == ErrorResponse(NullId, ParseErrorCode, "Parse error")

\* JSON.parse(line) succeeds on a whole request line only: a line that is
\* not JSON, and the head or the tail of a line cut by a chunk boundary,
\* throw.
JsonParses(line) == line.part = "whole" /\ line.msg.kind = "req"

Throws(message) ==
  [act |-> "throw", message |-> message, handler |-> Absent,
   context |-> Undefined]
Calls(handler, context) ==
  [act |-> "call", message |-> "", handler |-> handler, context |-> context]

\* a wrapper that falls back to a default context when verification fails
WrappedHandler_defaultContext(handler, request) ==
  IF request.p0.t = "num"
  THEN Throws("Expected JWT token as string, got number")
  ELSE Calls(handler, verifyJWT(secret, request.p0).context)

\* a wrapper that verifies once and reuses the first context it verified
WrappedHandler_cachedContext(handler, request) ==
  IF request.p0.t = "num"
  THEN Throws("Expected JWT token as string, got number")
  ELSE LET v == verifyJWT(secret, request.p0)
       IN  IF v.ok
           THEN Calls(handler, IF invocations = << >> THEN v.context
                               ELSE invocations[1].context)
           ELSE Throws(v.error)

\* a wrapper without the type check: whatever the first parameter is goes
\* to verifyJWT
WrappedHandler_noTypeCheck(handler, request) ==
  LET v == verifyJWT(secret, request.p0)
  IN  IF v.ok THEN Calls(handler, v.context) ELSE Throws(v.error)

\* wrappedHandler up to the call of the registered handler: the type check
\* of the first parameter, then verifyJWT, then handler(context, args).
WrappedHandler(handler, request) ==
  IF request.p0.t = "num"
  THEN Throws("Expected JWT token as string, got number")
  ELSE LET v == verifyJWT(secret, request.p0)
       IN  IF v.ok THEN Calls(handler, v.context) ELSE Throws(v.error)

\* server.receive(request) up to the first suspension: an unknown method and
\* a throw of the wrapped handler are answered at once, otherwise the
\* registered handler has been called and its promise is awaited.
Receive(request, table) ==
  IF table[request.method] = Absent
  THEN [act |-> "respond", handler |-> Absent, context |-> Undefined,
        response |-> ErrorResponse(request.id, MethodNotFoundCode,
                                   "Method not found")]
  ELSE LET w == WrappedHandler(table[request.method], request)
       IN  IF w.act = "throw"
           THEN [act |-> "respond", handler |-> Absent, context |-> Undefined,
                 response |-> ErrorResponse(request.id, DefaultErrorCode,
                                            w.message)]
           ELSE [act |-> "await", handler |-> w.handler,
                 context |-> w.context,
                 response |-> ErrorResponse(request.id, DefaultErrorCode, "")]

\* for (const line of lines) { ... } from line pos on, run until the loop
\* awaits a handler or ends.  Returns where it stopped, what it wrote, and
\* the call it awaits (if any).
RECURSIVE RunLines(_, _, _, _)

\* a loop that answers as soon as the handler is called, without awaiting it
RunLines_noAwait(lines, pos, out, table) ==
  IF pos > Len(lines)
  THEN [pos |-> pos, out |-> out, awaits |-> FALSE,
        handler |-> Absent, context |-> Undefined, ends |-> FALSE]
  ELSE IF ~JsonParses(lines[pos])
       THEN RunLines(lines, pos + 1, Append(out, ParseErrorResponse), table)
       ELSE LET r == Receive(lines[pos].msg, table)
            IN  IF r.act = "respond"
                THEN RunLines(lines, pos + 1, Append(out, r.response), table)
                ELSE [pos |-> pos,
                      out |-> Append(out, ResultResponse(lines[pos].msg.id,
                                                         Len(invocations) + 1)),
                      awaits |-> TRUE,
                      handler |-> r.handler, context |-> r.context,
                      ends |-> FALSE]

\* a loop that gives up the rest of the chunk at the first line that does
\* not parse
RunLines_stopOnParseError(lines, pos, out, table) ==
  IF pos > Len(lines)
  THEN [pos |-> pos, out |-> out, awaits |-> FALSE,
        handler |-> Absent, context |-> Undefined, ends |-> FALSE]
  ELSE IF ~JsonParses(lines[pos])
       THEN [pos |-> Len(lines) + 1, out |-> Append(out, ParseErrorResponse),
             awaits |-> FALSE, handler |-> Absent, context |-> Undefined,
             ends |-> FALSE]
       ELSE LET r == Receive(lines[pos].msg, table)
            IN  IF r.act = "respond"
                THEN RunLines(lines, pos + 1, Append(out, r.response), table)
                ELSE [pos |-> pos, out |-> out, awaits |-> TRUE,
                      handler |-> r.handler, context |-> r.context,
                      ends |-> FALSE]

RunLines(lines, pos, out, table) ==
  IF pos > Len(lines)
  THEN [pos |-> pos, out |-> out, awaits |-> FALSE,
        handler |-> Absent, context |-> Undefined, ends |-> FALSE]
  ELSE IF ~JsonParses(lines[pos])
       THEN RunLines(lines, pos + 1, Append(out, ParseErrorResponse), table)
       ELSE LET r == Receive(lines[pos].msg, table)
            IN  IF r.act = "respond"
                THEN RunLines(lines, pos + 1, Append(out, r.response), table)
                ELSE [pos |-> pos, out |-> out, awaits |-> TRUE,
                      handler |-> r.handler, context |-> r.context,
                      ends |-> FALSE]

\* what a called handler is going to do: settle at some time, or never; and
\* how a handler settles
HandlerWills == {"settle", "hang"}
HandlerOutcomes == {"resolve", "reject"}
HandlerErrorMessage == "Custom error"

\* The state after the loop of task t ran from line pos on; will is what the
\* handler it may call is going to do.
Run(t, lines, pos, out, will) ==
  LET r == RunLines(lines, pos, out, methods)
  IN  /\ written' = r.out
      /\ tasks' = IF t > Len(tasks)
                  THEN Append(tasks, [lines |-> lines, pos |-> r.pos])
                  ELSE [tasks EXCEPT ![t].pos = r.pos]
      /\ conn' = IF r.ends THEN "closedByHost" ELSE conn
      /\ IF r.awaits
         THEN invocations' = Append(invocations,
                [task |-> t, line |-> r.pos, req |-> lines[r.pos].msg,
                 handler |-> r.handler, context |-> r.context,
                 will |-> will, status |-> "pending"])
         ELSE /\ invocations' = invocations
              /\ will = "settle"

\* socket.on("data"): the stream hands over a chunk that completes n lines
\* and may end inside the next one.
Deliver(n, split) ==
  /\ conn = "open"
  /\ n >= 1 \/ (split /\ ~carry)
  /\ nDel + n + (IF split THEN 1 ELSE 0) <= Len(sent)
  /\ \E will \in HandlerWills :
       Run(Len(tasks) + 1, SplitLines(ChunkSegments(n, split)), 1, written,
           will)
  /\ nDel' = nDel + n
  /\ carry' = split
  /\ UNCHANGED << schema, host, bridge, secret, proc, conns, registrations, launch,
                  toolsConfig, methods, minted, sent,
                  jwtCase >>

\* The promise of invocation i settles: the response is written and the loop
\* of its task goes on with the next line.
\* a response that takes the id of the request dispatched last
SettledResponse_lastId(inv, i, outcome) ==
  IF outcome = "resolve"
  THEN ResultResponse(invocations[Len(invocations)].req.id, i)
  ELSE ErrorResponse(invocations[Len(invocations)].req.id, DefaultErrorCode,
                     HandlerErrorMessage)

\* a response that hides the handler's message
SettledResponse_genericError(inv, i, outcome) ==
  IF outcome = "resolve"
  THEN ResultResponse(inv.req.id, i)
  ELSE ErrorResponse(inv.req.id, DefaultErrorCode, "Internal error")

SettledResponse(inv, i, outcome) ==
  IF outcome = "resolve"
  THEN ResultResponse(inv.req.id, i)
  ELSE ErrorResponse(inv.req.id, DefaultErrorCode, HandlerErrorMessage)

\* a settle step that puts the response in front of those written before
HandlerSettle_writesFirst(i, outcome) ==
  /\ i \in DOMAIN invocations
  /\ LET inv == invocations[i] IN
     /\ inv.status = "pending"
     /\ inv.will # "hang"
     /\ \E will \in HandlerWills :
          LET r == RunLines(tasks[inv.task].lines, inv.line + 1,
                            << SettledResponse(inv, i, outcome) >> \o written,
                            methods)
          IN  /\ written' = r.out
              /\ tasks' = [tasks EXCEPT ![inv.task].pos = r.pos]
              /\ conn' = IF r.ends THEN "closedByHost" ELSE conn
              /\ LET done == [invocations EXCEPT ![i].status =
                                IF outcome = "resolve" THEN "resolved"
                                ELSE "rejected"]
                 IN  IF r.awaits
                     THEN invocations' = Append(done,
                            [task |-> inv.task, line |-> r.pos,
                             req |-> tasks[inv.task].lines[r.pos].msg,
                             handler |-> r.handler, context |-> r.context,
                             will |-> will, status |-> "pending"])
                     ELSE /\ invocations' = done
                          /\ will = "settle"
     /\ UNCHANGED << schema, host, bridge, secret, proc, conns, registrations, launch,
                  toolsConfig, methods, minted, sent, nDel,
                     carry, jwtCase >>

HandlerSettle(i, outcome) ==
  /\ i \in DOMAIN invocations
  /\ LET inv == invocations[i] IN
     /\ inv.status = "pending"
     /\ inv.will # "hang"
     /\ \E will \in HandlerWills :
          LET r == RunLines(tasks[inv.task].lines, inv.line + 1,
                            Append(written, SettledResponse(inv, i, outcome)),
                            methods)
          IN  /\ written' = r.out
              /\ tasks' = [tasks EXCEPT ![inv.task].pos = r.pos]
              /\ conn' = IF r.ends THEN "closedByHost" ELSE conn
              /\ LET done == [invocations EXCEPT ![i].status =
                                IF outcome = "resolve" THEN "resolved"
                                ELSE "rejected"]
                 IN  IF r.awaits
                     THEN invocations' = Append(done,
                            [task |-> inv.task, line |-> r.pos,
                             req |-> tasks[inv.task].lines[r.pos].msg,
                             handler |-> r.handler, context |-> r.context,
                             will |-> will, status |-> "pending"])
                     ELSE /\ invocations' = done
                          /\ will = "settle"
     /\ UNCHANGED << schema, host, bridge, secret, proc, conns, registrations, launch,
                  toolsConfig, methods, minted, sent, nDel,
                     carry, jwtCase >>

(***************************************************************************)
(* The host with several connections: net.createServer calls the           *)
(* connection callback once per client, and the "data", "close" and        *)
(* "error" handlers it installs close over that client's socket.  The     *)
(* method table and the JSON-RPC server are shared.  conns.sockets holds,  *)
(* per connection, whether the client is still there, one task per "data"  *)
(* event, and what was handed to socket.write while the socket was         *)
(* writable (written) and after it stopped being so (failed);              *)
(* conns.invocations holds the handler calls of all connections in the     *)
(* order they were dispatched.                                             *)
(***************************************************************************)
Conns == {"c1", "c2"}
\* what a line of a chunk can be: a call of the registered method with a
\* token the host handed out, a call of a method that is not registered, a
\* line that is not JSON
LineKinds == {"call", "unknown", "garbage"}
ConnLine(kind, id) ==
  LET token == createJWT(secret, [kind |-> "object", val |-> "userId:1"])
  IN  [part |-> "whole",
       msg |-> CASE kind = "call" -> Request(id, "fnA", token)
                 [] kind = "unknown" -> Request(id, "fnB", token)
                 [] OTHER -> Garbage]
\* the chunks a client writes: one or two lines, numbered on from the lines
\* it sent before
ConnChunks(first) ==
  { << ConnLine(k, first) >> : k \in LineKinds }
    \cup { << ConnLine(k1, first), ConnLine(k2, first + 1) >> :
             k1 \in LineKinds, k2 \in LineKinds }

IdleConns ==
  [sockets |-> [c \in Conns |->
                  [open |-> TRUE, tasks |-> << >>, written |-> << >>,
                   failed |-> << >>]],
   invocations |-> << >>]

LinesSent(c) ==
  LET ts == conns.sockets[c].tasks
      sum[n \in 0..Len(ts)] ==
        IF n = 0 THEN 0 ELSE sum[n - 1] + Len(ts[n].lines)
  IN  sum[Len(ts)]

ChunksReceived ==
  LET sum[S \in SUBSET Conns] ==
        IF S = {} THEN 0
        ELSE LET c == CHOOSE x \in S : TRUE
             IN  Len(conns.sockets[c].tasks) + sum[S \ {c}]
  IN  sum[Conns]

ConnsUnchanged ==
  UNCHANGED << schema, host, bridge, secret, proc, registrations, launch,
               toolsConfig, methods, minted, sent, nDel, carry, tasks,
               invocations, written, conn, jwtCase >>

\* a write through one socket variable shared by the connections, holding
\* the first client's socket
ConnWrite_sharedSocket(sockets, c, out) ==
  [sockets EXCEPT !["c1"].written = @ \o out]

\* socket.write(JSON.stringify(response) + "\n") for each response of out,
\* on the socket of connection c.  There is no test of socket.writable: on a
\* socket that is no longer writable the call returns, nothing is sent and
\* the failure goes to the socket's "error" handler, which logs it.
ConnWrite(sockets, c, out) ==
  IF sockets[c].open
  THEN [sockets EXCEPT ![c].written = @ \o out]
  ELSE [sockets EXCEPT ![c].failed = @ \o out]

\* The loop of task t of connection c runs from line pos on, after the
\* responses of before were produced.
ConnRun(c, t, lines, pos, before, will, done) ==
  LET r == RunLines(lines, pos, before, methods)
      socks == [conns.sockets EXCEPT
                  ![c].tasks = IF t > Len(@)
                               THEN Append(@, [lines |-> lines, pos |-> r.pos])
                               ELSE [@ EXCEPT ![t].pos = r.pos]]
  IN  /\ conns' =
           [sockets |-> ConnWrite(socks, c, r.out),
            invocations |->
              IF r.awaits
              THEN Append(done,
                     [conn |-> c, task |-> t, line |-> r.pos,
                      req |-> lines[r.pos].msg, handler |-> r.handler,
                      context |-> r.context, will |-> will,
                      status |-> "pending"])
              ELSE done]
      /\ r.awaits \/ will = "settle"

\* socket.on("data") of connection c
ConnData(c, lines, will) ==
  /\ conns.sockets[c].open
  /\ ChunksReceived < MaxChunk
  /\ lines \in ConnChunks(LinesSent(c) + 1)
  /\ ConnRun(c, Len(conns.sockets[c].tasks) + 1, lines, 1, << >>, will,
             conns.invocations)
  /\ ConnsUnchanged

\* The promise of invocation i settles: its response is written on the
\* socket of its connection and the loop of its task goes on.
ConnSettle(i, outcome, will) ==
  /\ i \in DOMAIN conns.invocations
  /\ LET inv == conns.invocations[i] IN
     /\ inv.status = "pending"
     /\ inv.will # "hang"
     /\ ConnRun(inv.conn, inv.task,
                conns.sockets[inv.conn].tasks[inv.task].lines, inv.line + 1,
                << SettledResponse(inv, i, outcome) >>, will,
                [conns.invocations EXCEPT ![i].status =
                   IF outcome = "resolve" THEN "resolved" ELSE "rejected"])
  /\ ConnsUnchanged

\* The client of connection c goes away: the socket is no longer writable;
\* socket.on("close") logs "Client disconnected".
ConnDisconnect(c) ==
  /\ conns.sockets[c].open
  /\ conns' = [conns EXCEPT !.sockets[c].open = FALSE]
  /\ ConnsUnchanged

(***************************************************************************)
(* Bridge process start-up (src/src/index.ts, the module body): the three  *)
(* environment variables are read and required in turn, TOOLS is parsed,   *)
(* the socket is created, the tools are registered on the MCP server and   *)
(* the stdio transport is connected.  An Error thrown by the module body   *)
(* is uncaught: the process exits with code 1.  proc.pc names the          *)
(* statement the process runs next.                                        *)
(***************************************************************************)
\* the functionName the TOOLS value of a started bridge gives each tool
BridgeTools ==
  [t \in ToolNames |-> (CHOOSE d \in Descriptors : d[1] = t)[2]]

\* process.env.X: undefined when the variable is not set, else a string; a
\* string that is JSON is held parsed
EnvUnset == [given |-> FALSE, text |-> "", json |-> {}]
EnvString(text) == [given |-> TRUE, text |-> text, json |-> {}]
EnvJson(json) == [given |-> TRUE, text |-> "json", json |-> json]
Environments ==
  [CONTEXT_TOKEN : { EnvUnset, EnvString(""), EnvString("token"),
                     EnvString("token2") },
   TOOLS : { EnvUnset, EnvString(""), EnvString("{not json"), EnvJson({}),
             EnvJson(JsonStringifyTools([t \in {"toolB"} |-> BridgeTools[t]])),
             EnvJson(JsonStringifyTools(BridgeTools)) },
   PIPE : { EnvUnset, EnvString(""), EnvString("pipePath") }]

\* !value is false
Truthy(value) == value.given /\ value.text # ""
\* JSON.parse(value) returns
ParsesAsJson(value) == value.text = "json"

RequiredMessage(name) == name \o " environment variable is required"
InvalidToolsMessage == "TOOLS must be valid JSON"
ExitFailure == 1

\* an uncaught Error thrown by the module body
Uncaught(message) ==
  [proc EXCEPT !.pc = "exited", !.error = message, !.exitCode = ExitFailure]

ProcUnchanged ==
  UNCHANGED << schema, host, bridge, secret, conns, registrations, launch,
               toolsConfig, methods, minted, sent, nDel, carry, tasks,
               invocations, written, conn, jwtCase >>

\* if (!value) { throw new Error("<name> environment variable is
\* required"); }
RequireEnv(name, next) ==
  /\ proc.pc = name
  /\ proc' = IF Truthy(proc.env[name]) THEN [proc EXCEPT !.pc = next]
             ELSE Uncaught(RequiredMessage(name))
  /\ ProcUnchanged

\* a parse that falls back to an empty configuration
ParseTools_fallsBack ==
  /\ proc.pc = "parse"
  /\ proc' = [proc EXCEPT !.pc = "connect"]
  /\ ProcUnchanged

\* try { tools = JSON.parse(toolsConfig) } catch { throw new Error("TOOLS
\* must be valid JSON") }
ParseTools ==
  /\ proc.pc = "parse"
  /\ proc' = IF ParsesAsJson(proc.env.TOOLS) THEN [proc EXCEPT !.pc = "connect"]
             ELSE Uncaught(InvalidToolsMessage)
  /\ ProcUnchanged

\* const socket = net.createConnection(pipeAddress)
CreateConnection ==
  /\ proc.pc = "connect"
  /\ proc' = [proc EXCEPT !.pc = "register", !.socket = "open"]
  /\ ProcUnchanged

\* for (const [toolName, toolConfig] of Object.entries(tools)) {
\* server.registerTool(toolName, ...) }
ConfiguredTools(value) == DOMAIN JsonParseTools(value.json)
RegisterBridgeTool(toolName) ==
  /\ proc.pc = "register"
  /\ toolName \in ConfiguredTools(proc.env.TOOLS) \ proc.registered
  /\ proc' = [proc EXCEPT !.registered = @ \cup {toolName}]
  /\ ProcUnchanged

\* await server.connect(transport): from here on tools are invoked and
\* socket events are handled
Serve ==
  /\ proc.pc = "register"
  /\ proc.registered = ConfiguredTools(proc.env.TOOLS)
  /\ proc' = [proc EXCEPT !.pc = "running"]
  /\ ProcUnchanged

\* The peer ends the connection: the socket is no longer writable, its
\* "close" event is still to come.
SocketEnd ==
  /\ proc.pc = "running"
  /\ proc.socket = "open"
  /\ proc' = [proc EXCEPT !.socket = "ended"]
  /\ ProcUnchanged

\* a handler that only logs the event, as the host's handlers do
SocketFatal_logsOnly(event) ==
  /\ proc.pc = "running"
  /\ proc.socket \in {"open", "ended"}
  /\ proc' = [proc EXCEPT !.socket = "closed", !.event = event]
  /\ ProcUnchanged

\* socket.on("error", ...) and socket.on("close", ...): process.exit(1)
SocketFatal(event) ==
  /\ proc.pc = "running"
  /\ proc.socket \in {"open", "ended"}
  /\ proc' = [proc EXCEPT !.pc = "exited", !.socket = "closed",
                          !.event = event, !.exitCode = ExitFailure]
  /\ ProcUnchanged

\* The process as the module body starts with the given environment.
BootProc(env) ==
  [pc |-> "CONTEXT_TOKEN", env |-> env, error |-> "", exitCode |-> 0,
   socket |-> "none", event |-> "", registered |-> {}]

\* A bridge that has started with the environment the host handed out.
RunningProc ==
  [BootProc([CONTEXT_TOKEN |-> EnvString("token"),
             TOOLS |-> EnvJson(JsonStringifyTools(BridgeTools)),
             PIPE |-> EnvString("pipePath")])
     EXCEPT !.pc = "running", !.socket = "open", !.registered = ToolNames]

(***************************************************************************)
(* Host lifecycle: start(), the listen callback, the socket server's       *)
(* "error" event, stop(), the close callback and the stop timeout.         *)
(* host.servers holds every net.Server the host created, host.socketServer *)
(* is the index of the one this.socketServer refers to (0 = undefined);    *)
(* host.starts and host.stops hold the promise of every start() and stop() *)
(* call.                                                                   *)
(***************************************************************************)
AlreadyStarted == "Server is already started"
BindFailed == "listen EADDRINUSE"
StopTimeout == "Server stop timeout"
ServerNotRunning == "ERR_SERVER_NOT_RUNNING"

RegisteredTools == { t \in ToolNames : toolsConfig[t] # Absent }

\* The state of the lifecycle the host is in.
LifeState(h) ==
  IF \E k \in 1..Len(h.stops) : h.stops[k].status = "pending"
  THEN "Stopping"
  ELSE IF h.isStarted THEN "Listening"
  ELSE IF \E s \in 1..Len(h.servers) : h.servers[s].status = "binding"
  THEN "Starting"
  ELSE IF \E s \in 1..Len(h.servers) :
            h.servers[s].status \in {"closing", "closed"}
  THEN "Stopped"
  ELSE "Created"

\* The token scenario before any token is signed.
IdleJwtCase ==
  [phase |-> "idle", context |-> Undefined, verifier |-> "hostSecret",
   token |-> MalformedString, result |-> AuthFailure("")]

\* The bridge before any tool is invoked.
IdleBridge ==
  [calls |-> << >>, wire |-> {}, dropped |-> {}, nextId |-> 1]

CreatedHost ==
  [isStarted |-> FALSE, socketServer |-> 0, servers |-> << >>,
   starts |-> << >>, stops |-> << >>, socketFile |-> 0,
   connections |-> << >>]

\* The host of the connection specification: started once and listening.
ServingHost ==
  [isStarted |-> TRUE, socketServer |-> 1,
   servers |-> << [status |-> "listening", availableTools |-> {}] >>,
   starts |-> << [from |-> "Created", server |-> 1, status |-> "resolved",
                  reason |-> ""] >>,
   stops |-> << >>, socketFile |-> 1, connections |-> << >>]

LifeUnchanged ==
  UNCHANGED << schema, bridge, secret, proc, conns, registrations, launch,
                  toolsConfig, methods, minted, sent, nDel,
               carry, tasks, invocations, written, conn, jwtCase >>

\* a start() that marks the host started before the bind has completed
Start_marksStarted ==
  /\ Len(host.starts) < MaxStart
  /\ IF host.isStarted
     THEN host' = [host EXCEPT !.starts = Append(@,
                     [from |-> LifeState(host), server |-> 0,
                      status |-> "rejected", reason |-> AlreadyStarted])]
     ELSE host' = [host EXCEPT
                     !.isStarted = TRUE,
                     !.servers = Append(@, [status |-> "binding",
                                            availableTools |-> {}]),
                     !.socketServer = Len(host.servers) + 1,
                     !.socketFile = Len(host.servers) + 1,
                     !.starts = Append(@,
                       [from |-> LifeState(host),
                        server |-> Len(host.servers) + 1,
                        status |-> "pending", reason |-> ""])]
  /\ LifeUnchanged

\* start(): throws when isStarted; otherwise unlinks the socket file,
\* creates a socket server, stores it in this.socketServer and listens,
\* which binds a new socket file at pipePath; the promise stays pending
\* until the listen callback or the "error" event.
Start ==
  /\ Len(host.starts) < MaxStart
  /\ IF host.isStarted
     THEN host' = [host EXCEPT !.starts = Append(@,
                     [from |-> LifeState(host), server |-> 0,
                      status |-> "rejected", reason |-> AlreadyStarted])]
     ELSE host' = [host EXCEPT
                     !.servers = Append(@, [status |-> "binding",
                                            availableTools |-> {}]),
                     !.socketServer = Len(host.servers) + 1,
                     !.socketFile = Len(host.servers) + 1,
                     !.starts = Append(@,
                       [from |-> LifeState(host),
                        server |-> Len(host.servers) + 1,
                        status |-> "pending", reason |-> ""])]
  /\ LifeUnchanged

\* the promise of the start() call that created server s settles
SettleStart(starts, s, status, reason) ==
  [k \in 1..Len(starts) |->
     IF starts[k].server = s /\ starts[k].status = "pending"
     THEN [starts[k] EXCEPT !.status = status, !.reason = reason]
     ELSE starts[k]]

\* listenCallback of server s
ListenCallback(s) ==
  /\ s \in 1..Len(host.servers)
  /\ host.servers[s].status = "binding"
  /\ host' = [host EXCEPT
                !.isStarted = TRUE,
                !.servers[s] = [status |-> "listening",
                                availableTools |-> RegisteredTools],
                !.starts = SettleStart(@, s, "resolved", "")]
  /\ LifeUnchanged

\* socketServer.on("error") of server s while it binds: the bind has
\* failed and has left no socket file
BindError(s) ==
  /\ s \in 1..Len(host.servers)
  /\ host.servers[s].status = "binding"
  /\ host' = [host EXCEPT
                !.servers[s].status = "failed",
                !.socketFile = IF @ = s THEN 0 ELSE @,
                !.starts = SettleStart(@, s, "rejected", BindFailed)]
  /\ LifeUnchanged

\* server.close(callback) leaves a server that is not running as it is and
\* hands ERR_SERVER_NOT_RUNNING to the callback.
Running(server) == server.status \in {"binding", "listening"}

\* stop(): returns when the host is not started or has no socket server;
\* otherwise arms the 5 s timeout and calls close on this.socketServer.  A
\* running server stops listening at once, which removes the file at the
\* path it was bound to; its "close" event waits for its connections.
Stop ==
  /\ Len(host.stops) < MaxStop
  /\ IF ~host.isStarted \/ host.socketServer = 0
     THEN host' = [host EXCEPT !.stops = Append(@,
                     [from |-> LifeState(host), server |-> 0,
                      status |-> "resolved", reason |-> "",
                      timer |-> "none", notRunning |-> FALSE])]
     ELSE LET s == host.socketServer IN
          host' = [host EXCEPT
                     !.servers[s].status =
                        IF Running(host.servers[s]) THEN "closing" ELSE @,
                     !.socketFile =
                        IF Running(host.servers[s]) THEN 0 ELSE @,
                     !.stops = Append(@,
                       [from |-> LifeState(host), server |-> s,
                        status |-> "pending", reason |-> "",
                        timer |-> "armed",
                        notRunning |-> ~Running(host.servers[s])])]
  /\ LifeUnchanged

\* the close callback of one stop() call: the timeout is cleared; with an
\* error the promise is rejected, otherwise it is resolved (a promise the
\* timeout has rejected already stays rejected).
CloseCallback(stop) ==
  IF stop.notRunning
  THEN [stop EXCEPT
          !.timer = IF @ = "armed" THEN "cleared" ELSE @,
          !.status = IF @ = "pending" THEN "rejected" ELSE @,
          !.reason = IF stop.status = "pending" THEN ServerNotRunning ELSE @]
  ELSE [stop EXCEPT
          !.timer = IF @ = "armed" THEN "cleared" ELSE @,
          !.status = IF @ = "pending" THEN "resolved" ELSE @]

\* the stop() calls whose close callback waits for the "close" event of
\* server s
Waiting(s) ==
  { k \in 1..Len(host.stops) :
      host.stops[k].server = s /\ host.stops[k].timer \in {"armed", "fired"} }

\* the connections server s accepted that have not closed
OpenConnections(s) ==
  { c \in 1..Len(host.connections) :
      host.connections[c].server = s /\ host.connections[c].open }

\* a "close" event that does not wait for the connections of the server
CloseDone_whileConnected(s) ==
  /\ s \in 1..Len(host.servers)
  /\ host.servers[s].status = "closing"
  /\ host' = [host EXCEPT
                !.servers[s].status = "closed",
                !.socketFile =
                   IF \E k \in Waiting(s) : ~host.stops[k].notRunning
                   THEN 0 ELSE @,
                !.isStarted =
                   IF \E k \in Waiting(s) : ~host.stops[k].notRunning
                   THEN FALSE ELSE @,
                !.stops = [k \in 1..Len(host.stops) |->
                             IF k \in Waiting(s)
                             THEN CloseCallback(host.stops[k])
                             ELSE host.stops[k]]]
  /\ LifeUnchanged

\* The last connection of a closing server has ended: the server emits
\* "close" and every callback registered on it runs; one that got no error
\* unlinks the file at pipePath and marks the host not started.
CloseDone(s) ==
  /\ s \in 1..Len(host.servers)
  /\ host.servers[s].status = "closing"
  /\ OpenConnections(s) = {}
  /\ host' = [host EXCEPT
                !.servers[s].status = "closed",
                !.socketFile =
                   IF \E k \in Waiting(s) : ~host.stops[k].notRunning
                   THEN 0 ELSE @,
                !.isStarted =
                   IF \E k \in Waiting(s) : ~host.stops[k].notRunning
                   THEN FALSE ELSE @,
                !.stops = [k \in 1..Len(host.stops) |->
                             IF k \in Waiting(s)
                             THEN CloseCallback(host.stops[k])
                             ELSE host.stops[k]]]
  /\ LifeUnchanged

\* close was called on a server that had closed or had failed to bind: the
\* "close" event is emitted again on the next tick.
CloseNotRunning(k) ==
  /\ k \in 1..Len(host.stops)
  /\ host.stops[k].status = "pending"
  /\ host.stops[k].notRunning
  /\ host.servers[host.stops[k].server].status \in {"closed", "failed"}
  /\ host' = [host EXCEPT !.stops[k] = CloseCallback(@)]
  /\ LifeUnchanged

\* a timeout that rejects the stop() call and leaves the host started
StopTimeoutFires_keepsStarted(k) ==
  /\ k \in 1..Len(host.stops)
  /\ host.stops[k].timer = "armed"
  /\ host' = [host EXCEPT
                !.stops[k] = [@ EXCEPT !.timer = "fired",
                                       !.status = "rejected",
                                       !.reason = StopTimeout]]
  /\ LifeUnchanged

\* setTimeout(..., 5000) of stop() call k fires before the close callback
StopTimeoutFires(k) ==
  /\ k \in 1..Len(host.stops)
  /\ host.stops[k].timer = "armed"
  /\ host' = [host EXCEPT
                !.isStarted = FALSE,
                !.stops[k] = [@ EXCEPT !.timer = "fired",
                                       !.status = "rejected",
                                       !.reason = StopTimeout]]
  /\ LifeUnchanged

\* net.createServer((socket) => ...): a client that connects to pipePath
\* reaches the server whose socket file is there, while that server listens.
Connection(s) ==
  /\ s \in 1..Len(host.servers)
  /\ host.servers[s].status = "listening"
  /\ host.socketFile = s
  /\ Len(host.connections) < MaxConn
  /\ host' = [host EXCEPT !.connections = Append(@,
                 [server |-> s, open |-> TRUE, servedClosing |-> FALSE,
                  servedStopped |-> FALSE])]
  /\ LifeUnchanged

\* socket.on("data") of an open connection: the request is handed to the
\* RPC server and answered, whatever the state of the host; remembered is
\* whether that happened while the connection's server was closing and
\* while the host was marked not started.
SocketData(c) ==
  /\ c \in 1..Len(host.connections)
  /\ host.connections[c].open
  /\ host' = [host EXCEPT
                !.connections[c].servedClosing =
                   @ \/ host.servers[host.connections[c].server].status
                          = "closing",
                !.connections[c].servedStopped = @ \/ ~host.isStarted]
  /\ host' # host
  /\ LifeUnchanged

\* socket.on("close"): the client has closed the connection
SocketClose(c) ==
  /\ c \in 1..Len(host.connections)
  /\ host.connections[c].open
  /\ host' = [host EXCEPT !.connections[c].open = FALSE]
  /\ LifeUnchanged

(***************************************************************************)
(* The specification of the host's lifecycle: the application registers    *)
(* tools and calls start() and stop() in any order; the environment lets   *)
(* a bind succeed or fail and a close complete or not.                     *)
(***************************************************************************)
InitLife ==
  /\ secret = "hostSecret"
  /\ toolsConfig = [t \in ToolNames |-> Absent]
  /\ methods = [f \in FunctionNames |-> Absent]
  /\ minted = {}
  /\ sent = << >>
  /\ nDel = 0
  /\ carry = FALSE
  /\ tasks = << >>
  /\ invocations = << >>
  /\ written = << >>
  /\ conn = "open"
  /\ jwtCase = IdleJwtCase
  /\ host = CreatedHost
  /\ bridge = IdleBridge
  /\ proc = RunningProc
  /\ conns = IdleConns
  /\ schema = IdleSchema
  /\ registrations = << >>
  /\ launch = IdleLaunch

NextLife ==
  \/ \E d \in Descriptors : RegisterOnce(d)
  \/ Start
  \/ \E s \in 1..MaxStart : ListenCallback(s)
  \/ \E s \in 1..MaxStart : BindError(s)
  \/ Stop
  \/ \E s \in 1..MaxStart : CloseDone(s)
  \/ \E k \in 1..MaxStop : CloseNotRunning(k)
  \/ \E k \in 1..MaxStop : StopTimeoutFires(k)
  \/ \E s \in 1..MaxStart : Connection(s)
  \/ \E c \in 1..MaxConn : SocketData(c)
  \/ \E c \in 1..MaxConn : SocketClose(c)

SpecLife == InitLife /\ [][NextLife]_vars

\* A timer that is armed fires unless it is cleared first.
FairLife ==
  SpecLife /\ \A k \in 1..MaxStop : WF_vars(StopTimeoutFires(k))


(***************************************************************************)
(* BridgeProcess (src/src/index.ts): each tool invocation sends one RPC    *)
(* request through the JSON-RPC client, which numbers the requests and     *)
(* settles each one when the response with its id is received; the tool    *)
(* handler then maps the result or the error to tool content.  The host    *)
(* answering the requests is the environment.                              *)
(***************************************************************************)
\* RPC result values of every shape the mapping distinguishes; n names the
\* request the value was computed for.
StringValue(n) == [kind |-> "string", text |-> "result " \o ToString(n)]
NumberValue(n) == [kind |-> "number", n |-> n]
NullValue == [kind |-> "null"]
ItemObject(n) ==
  [kind |-> "object", fields |-> {"type", "text"}, n |-> n]
PlainObject(n) == [kind |-> "object", fields |-> {"value"}, n |-> n]
ArrayValue(n) ==
  [kind |-> "array", items |-> << ItemObject(n), NumberValue(n) >>]
ResultValues(n) ==
  { StringValue(n), NumberValue(n), NullValue, ItemObject(n),
    PlainObject(n), ArrayValue(n) }

\* messages of the JSON-RPC errors the host answers with
ErrorMessages == { HandlerErrorMessage, "Method not found" }

RpcResult(id, value) ==
  [id |-> id, kind |-> "result", value |-> value, message |-> ""]
RpcError(id, message) ==
  [id |-> id, kind |-> "error", value |-> NullValue, message |-> message]
NoResponse == RpcError(0, "")
HostAnswers(id) ==
  { RpcResult(id, v) : v \in ResultValues(id) }
    \cup { RpcError(id, m) : m \in ErrorMessages }

\* JSON.stringify(result) of the values that reach it
JsonStringify(v) ==
  CASE v.kind = "null" -> "null"
    [] v.kind = "number" -> ToString(v.n)
    [] v.kind = "object" /\ v.fields = {"value"} ->
         "{\"value\":" \o ToString(v.n) \o "}"
    [] v.kind = "object" /\ v.fields # {"value"} ->
         "{\"type\":\"text\",\"text\":" \o ToString(v.n) \o "}"
    [] v.kind = "string" -> "\"" \o v.text \o "\""
    [] OTHER -> "[...]"

TextItem(text) == [type |-> "text", text |-> text]

\* a mapping that tests for the item-type field before it tests for a
\* sequence and wraps whatever is an object
MapResult_wrapsObjects(result) ==
  IF result.kind = "string" THEN << TextItem(result.text) >>
  ELSE IF result.kind \in {"object", "array"} THEN << result >>
  ELSE << TextItem(JsonStringify(result)) >>

\* typeof result === "string" / Array.isArray(result) / result && typeof
\* result === "object" && "type" in result / else
MapResult(result) ==
  IF result.kind = "string" THEN << TextItem(result.text) >>
  ELSE IF result.kind = "array" THEN result.items
  ELSE IF result.kind = "object" /\ "type" \in result.fields
  THEN << result >>
  ELSE << TextItem(JsonStringify(result)) >>

\* a tool handler that lets the rejection of the RPC request escape
ToolOutcome_rethrows(functionName, response) ==
  IF response.kind = "result"
  THEN [status |-> "returned", content |-> MapResult(response.value)]
  ELSE [status |-> "threw", content |-> << >>]

\* the tool handler after "await rpcClient.request(...)": the result is
\* mapped; a rejection is caught and returned as one text item.
ToolOutcome(functionName, response) ==
  IF response.kind = "result"
  THEN [status |-> "returned", content |-> MapResult(response.value)]
  ELSE [status |-> "returned",
        content |-> << TextItem("Error calling " \o functionName \o ": "
                                \o response.message) >>]

BridgeUnchanged ==
  UNCHANGED << schema, host, secret, proc, conns, registrations, launch,
                  toolsConfig, methods, minted, sent, nDel,
               carry, tasks, invocations, written, conn, jwtCase >>

\* a handler that names the request after the tool
ToolCalled_methodIsToolName(toolName) ==
  /\ proc.pc = "running"
  /\ toolName \in proc.registered
  /\ Len(bridge.calls) < MaxCall
  /\ bridge' = [bridge EXCEPT
                  !.calls = Append(@,
                    [tool |-> toolName,
                     functionName |-> toolName,
                     params |-> << proc.env.CONTEXT_TOKEN.text, "args" >>,
                     id |-> bridge.nextId, sent |-> proc.socket = "open",
                     answer |-> NoResponse,
                     status |-> "pending", response |-> NoResponse,
                     content |-> << >>, order |-> 0, skipped |-> 0]),
                  !.nextId = @ + 1]
  /\ BridgeUnchanged

\* The external protocol host invokes a tool that is registered:
\* rpcClient.request numbers the request and send() writes it on the socket
\* if socket.writable, else only logs "Socket not writable"; either way the
\* request is pending in the client.
ToolCalled(toolName) ==
  /\ proc.pc = "running"
  /\ toolName \in proc.registered
  /\ Len(bridge.calls) < MaxCall
  /\ bridge' = [bridge EXCEPT
                  !.calls = Append(@,
                    [tool |-> toolName,
                     functionName |->
                       JsonParseTools(proc.env.TOOLS.json)[toolName]
                         .functionName,
                     params |-> << proc.env.CONTEXT_TOKEN.text, "args" >>,
                     id |-> bridge.nextId, sent |-> proc.socket = "open",
                     answer |-> NoResponse,
                     status |-> "pending", response |-> NoResponse,
                     content |-> << >>, order |-> 0, skipped |-> 0]),
                  !.nextId = @ + 1]
  /\ BridgeUnchanged

\* The host writes the response to a request that reached it and that it has
\* not answered yet.
HostResponds(c, answer) ==
  /\ proc.pc = "running"
  /\ proc.socket = "open"
  /\ c \in 1..Len(bridge.calls)
  /\ bridge.calls[c].sent
  /\ bridge.calls[c].answer = NoResponse
  /\ answer \in HostAnswers(bridge.calls[c].id)
  /\ bridge' = [bridge EXCEPT !.calls[c].answer = answer,
                              !.wire = @ \cup {answer}]
  /\ BridgeUnchanged

\* a client that settles its oldest pending request, whatever the id
Correlate_oldestPending(calls, response) ==
  LET pending == { c \in 1..Len(calls) : calls[c].status = "pending" }
  IN  IF pending = {} THEN {}
      ELSE { CHOOSE c \in pending : \A c2 \in pending : c <= c2 }

\* rpcClient.receive(response): the pending request with the response's id
Correlate(calls, response) ==
  { c \in 1..Len(calls) :
      calls[c].status = "pending" /\ calls[c].id = response.id }

Returned == { c \in 1..Len(bridge.calls) : bridge.calls[c].status # "pending" }

\* A line of a chunk the bridge receives: a whole response line, or a piece
\* of one that a chunk boundary has cut.
WholeLine(response) == [part |-> "whole", msg |-> response]
PieceOfLine(response) == [part |-> "piece", msg |-> response]
\* JSON.parse(line) of the bridge
ResponseParses(line) == line.part = "whole"

\* rpcClient.receive(response) and the continuation of the tool handler
\* that awaited the request; skipped is the number of lines of the chunk
\* that did not parse before this one.
ReceiveResponse(calls, response, skipped) ==
  LET returned == { c \in 1..Len(calls) : calls[c].status # "pending" }
  IN  [c \in 1..Len(calls) |->
         IF c \in Correlate(calls, response)
         THEN LET o == ToolOutcome(calls[c].functionName, response)
              IN  [calls[c] EXCEPT
                     !.status = o.status, !.content = o.content,
                     !.response = response,
                     !.order = Cardinality(returned) + 1,
                     !.skipped = skipped]
         ELSE calls[c]]

RECURSIVE BridgeLines(_, _, _)

\* a loop that leaves the chunk at the first line that does not parse
BridgeLines_stopOnParseError(calls, lines, skipped) ==
  IF lines = << >> THEN calls
  ELSE IF ~ResponseParses(Head(lines)) THEN calls
  ELSE BridgeLines(ReceiveResponse(calls, Head(lines).msg, skipped),
                   Tail(lines), skipped)

\* for (const line of lines) { try { rpcClient.receive(JSON.parse(line)) }
\* catch { debug(...) } }
BridgeLines(calls, lines, skipped) ==
  IF lines = << >> THEN calls
  ELSE IF ~ResponseParses(Head(lines))
  THEN BridgeLines(calls, Tail(lines), skipped + 1)
  ELSE BridgeLines(ReceiveResponse(calls, Head(lines).msg, skipped),
                   Tail(lines), skipped)

\* socket.on("data") of the bridge for a chunk with the given lines: the
\* lines are taken off the stream; a piece is lost with the line it was
\* cut from.
BridgeChunk(lines) ==
  /\ proc.pc = "running"
  /\ proc.socket = "open"
  /\ lines # << >>
  /\ \A i \in 1..Len(lines) : lines[i].msg \in bridge.wire
  /\ \A i, j \in 1..Len(lines) : lines[i].msg = lines[j].msg => i = j
  /\ bridge' = [bridge EXCEPT
       !.wire = @ \ { lines[i].msg : i \in 1..Len(lines) },
       !.dropped = @ \cup { lines[i].msg : i \in
                              { j \in 1..Len(lines) :
                                  ~ResponseParses(lines[j]) } },
       !.calls = BridgeLines(bridge.calls, lines, 0)]
  /\ BridgeUnchanged

\* a chunk holding one whole response line
BridgeData(response) == BridgeChunk(<< WholeLine(response) >>)

\* A response line that arrives cut over two chunks: JSON.parse throws on
\* both pieces, the error is only logged, no request is settled.
BridgeDataCut(response) == BridgeChunk(<< PieceOfLine(response) >>)

\* a chunk that starts with the rest of a cut line and holds a whole
\* response line behind it
BridgeDataAfterCut(cut, response) ==
  BridgeChunk(<< PieceOfLine(cut), WholeLine(response) >>)

InitBridge ==
  /\ secret = "hostSecret"
  /\ toolsConfig = [t \in ToolNames |-> Absent]
  /\ methods = [f \in FunctionNames |-> Absent]
  /\ minted = {}
  /\ sent = << >>
  /\ nDel = 0
  /\ carry = FALSE
  /\ tasks = << >>
  /\ invocations = << >>
  /\ written = << >>
  /\ conn = "open"
  /\ jwtCase = IdleJwtCase
  /\ host = ServingHost
  /\ bridge = IdleBridge
  /\ proc = RunningProc
  /\ conns = IdleConns
  /\ schema = IdleSchema
  /\ registrations = << >>
  /\ launch = IdleLaunch

NextBridge ==
  \/ \E t \in ToolNames : ToolCalled(t)
  \/ \E c \in 1..MaxCall, id \in 1..MaxCall :
       \E answer \in HostAnswers(id) : HostResponds(c, answer)
  \/ \E response \in bridge.wire : BridgeData(response)
  \/ \E response \in bridge.wire : BridgeDataCut(response)

SpecBridge == InitBridge /\ [][NextBridge]_vars

(***************************************************************************)
(* The specification of the host serving one connection.                   *)
(***************************************************************************)
Init ==
  /\ secret = "hostSecret"
  /\ toolsConfig = [t \in ToolNames |-> Absent]
  /\ methods = [f \in FunctionNames |-> Absent]
  /\ minted = {}
  /\ sent = << >>
  /\ nDel = 0
  /\ carry = FALSE
  /\ tasks = << >>
  /\ invocations = << >>
  /\ written = << >>
  /\ conn = "open"
  /\ jwtCase = IdleJwtCase
  /\ host = ServingHost
  /\ bridge = IdleBridge
  /\ proc = RunningProc
  /\ conns = IdleConns
  /\ schema = IdleSchema
  /\ registrations = << >>
  /\ launch = IdleLaunch

Next ==
  \/ \E d \in Descriptors : RegisterOnce(d)
  \/ \E b \in BundleRequests : GetMCPServerEnvVars(b[1], b[2])
  \/ ClientSendRequest
  \/ ClientSendGarbage
  \/ \E n \in 0..MaxSend, split \in BOOLEAN : Deliver(n, split)
  \/ \E i \in 1..Len(invocations), outcome \in HandlerOutcomes :
       HandlerSettle(i, outcome)

Spec == Init /\ [][Next]_vars

(***************************************************************************)
(* The specification of the token functions alone: a host with any secret  *)
(* signs any context value; the token, or the token with its payload       *)
(* swapped for another context's, is then verified by a host holding any   *)
(* secret.                                                                 *)
(***************************************************************************)
TokenSign(c) ==
  /\ jwtCase.phase = "idle"
  /\ jwtCase' = [jwtCase EXCEPT !.phase = "signed", !.context = c,
                                !.token = createJWT(secret, c)]
  /\ UNCHANGED << schema, host, bridge, secret, proc, conns, registrations, launch,
                  toolsConfig, methods, minted, sent, nDel, carry,
                  tasks, invocations, written, conn >>

TokenTamper(c) ==
  /\ jwtCase.phase = "signed"
  /\ JsonStringifyPayload(c) # jwtCase.token.payload
  /\ jwtCase' = [jwtCase EXCEPT !.phase = "tampered",
                                !.token.payload = JsonStringifyPayload(c)]
  /\ UNCHANGED << schema, host, bridge, secret, proc, conns, registrations, launch,
                  toolsConfig, methods, minted, sent, nDel, carry,
                  tasks, invocations, written, conn >>

TokenVerify(sec) ==
  /\ jwtCase.phase \in {"signed", "tampered"}
  /\ jwtCase' = [jwtCase EXCEPT
                   !.phase = IF jwtCase.phase = "signed" THEN "verified"
                             ELSE "verifiedTampered",
                   !.verifier = sec,
                   !.result = verifyJWT(sec, jwtCase.token)]
  /\ UNCHANGED << schema, host, bridge, secret, proc, conns, registrations, launch,
                  toolsConfig, methods, minted, sent, nDel, carry,
                  tasks, invocations, written, conn >>

InitToken ==
  /\ secret \in Secrets
  /\ toolsConfig = [t \in ToolNames |-> Absent]
  /\ methods = [f \in FunctionNames |-> Absent]
  /\ minted = {}
  /\ sent = << >>
  /\ nDel = 0
  /\ carry = FALSE
  /\ tasks = << >>
  /\ invocations = << >>
  /\ written = << >>
  /\ conn = "open"
  /\ jwtCase = IdleJwtCase
  /\ host = ServingHost
  /\ bridge = IdleBridge
  /\ proc = RunningProc
  /\ conns = IdleConns
  /\ schema = IdleSchema
  /\ registrations = << >>
  /\ launch = IdleLaunch

NextToken ==
  \/ \E c \in ContextValues : TokenSign(c)
  \/ \E c \in ContextValues : TokenTamper(c)
  \/ \E sec \in Secrets : TokenVerify(sec)

SpecToken == InitToken /\ [][NextToken]_vars

(***************************************************************************)
(* The registry specification: registerTool is called again and again,     *)
(* with any tool name and any function name.                               *)
(***************************************************************************)
InitRegistry ==
  /\ secret = "hostSecret"
  /\ toolsConfig = [t \in ToolNames |-> Absent]
  /\ methods = [f \in FunctionNames |-> Absent]
  /\ minted = {}
  /\ sent = << >>
  /\ nDel = 0
  /\ carry = FALSE
  /\ tasks = << >>
  /\ invocations = << >>
  /\ written = << >>
  /\ conn = "open"
  /\ jwtCase = IdleJwtCase
  /\ host = CreatedHost
  /\ bridge = IdleBridge
  /\ proc = RunningProc
  /\ conns = IdleConns
  /\ schema = IdleSchema
  /\ registrations = << >>
  /\ launch = IdleLaunch

RegisterAgain(toolName, functionName) ==
  /\ Len(registrations) < MaxReg
  /\ RegisterTool(toolName, functionName)

SpecRegistry ==
  InitRegistry
    /\ [][\E t \in ToolNames, f \in FunctionNames : RegisterAgain(t, f)]_vars

(***************************************************************************)
(* The configuration specification: getMCPServerConfig is applied to every *)
(* combination of the options, on a host with the tools registered.        *)
(***************************************************************************)
InitConfig ==
  /\ secret = "hostSecret"
  /\ toolsConfig = BridgeTools
  /\ methods = [f \in FunctionNames |->
                  (CHOOSE d \in Descriptors : d[2] = f)[1]]
  /\ minted = {}
  /\ sent = << >>
  /\ nDel = 0
  /\ carry = FALSE
  /\ tasks = << >>
  /\ invocations = << >>
  /\ written = << >>
  /\ conn = "open"
  /\ jwtCase = IdleJwtCase
  /\ host = CreatedHost
  /\ bridge = IdleBridge
  /\ proc = RunningProc
  /\ conns = IdleConns
  /\ schema = IdleSchema
  /\ registrations = << >>
  /\ launch \in
       { [IdleLaunch EXCEPT !.build = b, !.name = n, !.tools = r[1],
                            !.context = r[2], !.options = o] :
           b \in {"src", "dist"}, n \in {"", "server"}, r \in BundleRequests,
           o \in ConfigOptions }

SpecConfig == InitConfig /\ [][GetMCPServerConfig]_vars

(***************************************************************************)
(* The bridge process specification: the process starts with any           *)
(* environment, and once it serves, tools are invoked, the host answers,   *)
(* chunks arrive and the socket may end, fail or close.                    *)
(***************************************************************************)
InitProc ==
  /\ secret = "hostSecret"
  /\ toolsConfig = [t \in ToolNames |-> Absent]
  /\ methods = [f \in FunctionNames |-> Absent]
  /\ minted = {}
  /\ sent = << >>
  /\ nDel = 0
  /\ carry = FALSE
  /\ tasks = << >>
  /\ invocations = << >>
  /\ written = << >>
  /\ conn = "open"
  /\ jwtCase = IdleJwtCase
  /\ host = ServingHost
  /\ bridge = IdleBridge
  /\ proc \in { BootProc(env) : env \in Environments }
  /\ conns = IdleConns
  /\ schema = IdleSchema
  /\ registrations = << >>
  /\ launch = IdleLaunch

\* the answers of the host in this specification: a result and an error
ProcAnswers(id) ==
  { RpcResult(id, StringValue(id)), RpcError(id, HandlerErrorMessage) }

NextProc ==
  \/ RequireEnv("CONTEXT_TOKEN", "TOOLS")
  \/ RequireEnv("TOOLS", "PIPE")
  \/ RequireEnv("PIPE", "parse")
  \/ ParseTools
  \/ CreateConnection
  \/ \E t \in ToolNames : RegisterBridgeTool(t)
  \/ Serve
  \/ \E t \in ToolNames : ToolCalled(t)
  \/ \E c \in 1..MaxCall, id \in 1..MaxCall :
       \E answer \in ProcAnswers(id) : HostResponds(c, answer)
  \/ \E response \in bridge.wire : BridgeData(response)
  \/ \E response \in bridge.wire : BridgeDataCut(response)
  \/ \E cut \in bridge.wire, response \in bridge.wire :
       BridgeDataAfterCut(cut, response)
  \/ SocketEnd
  \/ \E event \in {"error", "close"} : SocketFatal(event)

SpecProc == InitProc /\ [][NextProc]_vars

\* The host answers every request that reached it, a chunk that is on the
\* stream is delivered, and the "close" event follows the end of the
\* socket.
FairProc ==
  /\ SpecProc
  /\ WF_vars(\E c \in 1..MaxCall, id \in 1..MaxCall :
               \E answer \in ProcAnswers(id) : HostResponds(c, answer))
  /\ WF_vars(\/ \E response \in bridge.wire : BridgeData(response)
             \/ \E response \in bridge.wire : BridgeDataCut(response)
             \/ \E cut \in bridge.wire, response \in bridge.wire :
                  BridgeDataAfterCut(cut, response))
  /\ WF_vars(proc.socket = "ended" /\ SocketFatal("close"))

(***************************************************************************)
(* The connections specification: two clients on a started host with one   *)
(* tool registered.                                                        *)
(***************************************************************************)
InitConns ==
  /\ secret = "hostSecret"
  /\ toolsConfig = [t \in ToolNames |->
                      IF t = "toolA" THEN "fnA" ELSE Absent]
  /\ methods = [f \in FunctionNames |->
                  IF f = "fnA" THEN "toolA" ELSE Absent]
  /\ minted = {}
  /\ sent = << >>
  /\ nDel = 0
  /\ carry = FALSE
  /\ tasks = << >>
  /\ invocations = << >>
  /\ written = << >>
  /\ conn = "open"
  /\ jwtCase = IdleJwtCase
  /\ host = ServingHost
  /\ bridge = IdleBridge
  /\ proc = RunningProc
  /\ conns = IdleConns
  /\ schema = IdleSchema
  /\ registrations = << << "toolA", "fnA" >> >>
  /\ launch = IdleLaunch

NextConns ==
  \/ \E c \in Conns, will \in HandlerWills :
       \E lines \in ConnChunks(LinesSent(c) + 1) : ConnData(c, lines, will)
  \/ \E i \in 1..(2 * MaxChunk), outcome \in HandlerOutcomes,
        will \in HandlerWills : ConnSettle(i, outcome, will)
  \/ \E c \in Conns : ConnDisconnect(c)

SpecConns == InitConns /\ [][NextConns]_vars

(***************************************************************************)
(* The specification of schema conversion: registerTool is called once     *)
(* with any inputSchema of the bounded nesting.                            *)
(***************************************************************************)
InitSchema ==
  /\ secret = "hostSecret"
  /\ toolsConfig = [t \in ToolNames |-> Absent]
  /\ methods = [f \in FunctionNames |-> Absent]
  /\ minted = {}
  /\ sent = << >>
  /\ nDel = 0
  /\ carry = FALSE
  /\ tasks = << >>
  /\ invocations = << >>
  /\ written = << >>
  /\ conn = "open"
  /\ jwtCase = IdleJwtCase
  /\ host = CreatedHost
  /\ bridge = IdleBridge
  /\ proc = RunningProc
  /\ conns = IdleConns
  /\ registrations = << >>
  /\ launch = IdleLaunch
  /\ schema \in { [IdleSchema EXCEPT !.inputSchema = n] :
                    n \in SchemaNodes(SchemaDepth) }

SpecSchema == InitSchema /\ [][RegisterToolWithSchema]_vars

(***************************************************************************)
(* The specification of the bundles: on a host that is created or          *)
(* listening the application registers and re-registers tools, asks for    *)
(* tokens with getMCPServerEnvVars and calls getMCPServerConfig once,      *)
(* with a valid or an empty server name.                                   *)
(***************************************************************************)
InitBundle ==
  /\ secret = "hostSecret"
  /\ toolsConfig = [t \in ToolNames |-> Absent]
  /\ methods = [f \in FunctionNames |-> Absent]
  /\ minted = {}
  /\ sent = << >>
  /\ nDel = 0
  /\ carry = FALSE
  /\ tasks = << >>
  /\ invocations = << >>
  /\ written = << >>
  /\ conn = "open"
  /\ jwtCase = IdleJwtCase
  /\ host \in {CreatedHost, ServingHost}
  /\ bridge = IdleBridge
  /\ proc = RunningProc
  /\ conns = IdleConns
  /\ schema = IdleSchema
  /\ registrations = << >>
  /\ launch \in
       { [IdleLaunch EXCEPT !.name = n, !.tools = r[1], !.context = r[2]] :
           n \in {"", "server"}, r \in BundleRequests }

NextBundle ==
  \/ \E t \in ToolNames, f \in FunctionNames : RegisterAgain(t, f)
  \/ \E b \in BundleRequests :
       Cardinality(minted) < MaxBundle /\ GetMCPServerEnvVars(b[1], b[2])
  \/ GetMCPServerConfig

SpecBundle == InitBundle /\ [][NextBundle]_vars

(***************************************************************************)
(* C4.  Token round trip: a token signed with secret s over a JSON context *)
(* c verifies under s to c; under any other secret verification fails with *)
(* the authentication error and yields no context.                         *)
(***************************************************************************)
C4_TokenRoundTrip ==
  jwtCase.phase = "verified" =>
    /\ (jwtCase.verifier = secret /\ IsJsonValue(jwtCase.context)) =>
         /\ jwtCase.result.ok
         /\ jwtCase.result.context = jwtCase.context
    /\ jwtCase.verifier # secret =>
         /\ ~jwtCase.result.ok
         /\ jwtCase.result.context = Undefined
         /\ jwtCase.result.error = "Invalid JWT token: invalid signature"

C4_Witness ==
  /\ jwtCase.phase = "verified"
  /\ jwtCase.verifier = secret
  /\ jwtCase.context = [kind |-> "object", val |-> "userId:1"]
  /\ jwtCase.result.ok

(***************************************************************************)
(* Vocabulary of the claims about the connection.                          *)
(***************************************************************************)
Invs == 1..Len(invocations)
Tasks == 1..Len(tasks)
\* lines of task t the loop has finished with / is awaiting at
Finished(t) == 1..(tasks[t].pos - 1)
IsRequestLine(t, k) == JsonParses(tasks[t].lines[k])
ResponsesTo(id) == { j \in 1..Len(written) : written[j].id = id }
InvocationsFor(t, k) ==
  { i \in Invs : invocations[i].task = t /\ invocations[i].line = k }
Verifies(p0) == p0.t = "jwt" /\ p0.sig = Hmac(secret, p0.payload)

\* a task that has lines left is suspended on a pending handler call
AwaitsPending(t) ==
  tasks[t].pos <= Len(tasks[t].lines) =>
    \E i \in InvocationsFor(t, tasks[t].pos) :
      invocations[i].status = "pending"

\* the request of line k of task t was dispatched once and got one response,
\* which carries its id and the outcome of its own dispatch
AnsweredNormally(t, k) ==
  LET req == tasks[t].lines[k].msg
      rs == ResponsesTo(req.id)
      is == InvocationsFor(t, k)
  IN  /\ Cardinality(rs) = 1
      /\ Cardinality(is) <= 1
      /\ \A j \in rs :
           /\ is = {} =>
                /\ written[j].kind = "error"
                /\ \/ written[j].code = MethodNotFoundCode
                   \/ ~Verifies(req.p0)
           /\ \A i \in is :
                /\ invocations[i].status = "resolved" =>
                     written[j] = ResultResponse(req.id, i)
                /\ invocations[i].status = "rejected" =>
                     written[j] = ErrorResponse(req.id, DefaultErrorCode,
                                                HandlerErrorMessage)
                /\ invocations[i].status # "pending"

\* A handler whose promise settles does settle: each pending invocation that
\* is not hung is eventually resumed by the event loop.
FairSpec ==
  Spec /\ \A i \in 1..MaxSend :
            WF_vars(\E outcome \in HandlerOutcomes : HandlerSettle(i, outcome))

HangExists == \E i \in Invs : invocations[i].will = "hang"
ReceivedRequest(t, k) ==
  /\ t <= Len(tasks)
  /\ k <= Len(tasks[t].lines)
  /\ JsonParses(tasks[t].lines[k])

(***************************************************************************)
(* C1.  Token verification fails closed: a handler is invoked only for a   *)
(* request whose first parameter is a token signed with the host's secret, *)
(* and with the context that token carries; a request the loop has handled *)
(* whose token does not verify (wrong secret, malformed, not a string) has *)
(* no invocation and exactly one response, an error carrying its id; the   *)
(* host does not end the connection.                                       *)
(***************************************************************************)
C1_FailClosed ==
  /\ \A i \in Invs :
       /\ Verifies(invocations[i].req.p0)
       /\ invocations[i].context =
            DecodedContext(invocations[i].req.p0.payload)
  /\ \A t \in Tasks : \A k \in Finished(t) :
       (IsRequestLine(t, k) /\ ~Verifies(tasks[t].lines[k].msg.p0)) =>
         /\ InvocationsFor(t, k) = {}
         /\ Cardinality(ResponsesTo(tasks[t].lines[k].msg.id)) = 1
         /\ \A j \in ResponsesTo(tasks[t].lines[k].msg.id) :
              written[j].kind = "error"
  /\ conn = "open"

\* a forged token was refused with an error and a later request on the
\* same connection was dispatched
C1_Witness ==
  \E t \in Tasks : \E k \in Finished(t) :
    /\ IsRequestLine(t, k)
    /\ tasks[t].lines[k].msg.p0 = ForgedToken
    /\ toolsConfig["toolA"] # Absent
    /\ tasks[t].lines[k].msg.method = "fnA"
    /\ \E j \in ResponsesTo(tasks[t].lines[k].msg.id) :
         written[j].message = "Invalid JWT token: invalid signature"
    /\ \E i \in Invs : invocations[i].req.id > tasks[t].lines[k].msg.id

(***************************************************************************)
(* C2.  Every handler invocation receives the context that was given to    *)
(* getMCPServerEnvVars when the token of its own request was minted,       *)
(* whatever other requests are in flight.                                  *)
(***************************************************************************)
C2_OwnContext ==
  \A i \in Invs :
    /\ \E b \in minted : b.CONTEXT_TOKEN = invocations[i].req.p0
    /\ \A b \in minted :
         b.CONTEXT_TOKEN = invocations[i].req.p0 =>
           invocations[i].context = b.context

\* two invocations with different contexts are in flight at once
C2_Witness ==
  \E i, j \in Invs :
    /\ i < j
    /\ invocations[i].status = "pending"
    /\ invocations[j].status = "pending"
    /\ invocations[i].context # invocations[j].context

(***************************************************************************)
(* C3.  Least privilege per bundle: a handler is invoked for a request     *)
(* only if the request's method is the functionName of a tool named in the *)
(* subset S of a bundle whose token the request carries.                   *)
(***************************************************************************)
C3_LeastPrivilege ==
  \A i \in Invs :
    \E b \in minted :
      /\ b.CONTEXT_TOKEN = invocations[i].req.p0
      /\ \E t \in b.tools : toolsConfig[t] = invocations[i].req.method

(***************************************************************************)
(* C5.  Correlation is by id, whatever the order of completion: a request  *)
(* the host dispatched has no response while its handler is pending and    *)
(* exactly one once it has settled, carrying the request's id and the      *)
(* outcome of the invocation made for that request; every result on the    *)
(* socket belongs to a settled invocation of the request with that id; no  *)
(* request is dispatched twice, and a task with lines left is waiting for  *)
(* a pending handler and for nothing else.                                 *)
(***************************************************************************)
C5_Correlation ==
  /\ \A i \in Invs :
       LET inv == invocations[i] IN
       /\ inv.status = "pending" => ResponsesTo(inv.req.id) = {}
       /\ inv.status # "pending" =>
            /\ inv.line \in Finished(inv.task)
            /\ AnsweredNormally(inv.task, inv.line)
       /\ \A i2 \in Invs : i2 # i => invocations[i2].req.id # inv.req.id
  /\ \A j \in 1..Len(written) :
       written[j].kind = "result" =>
         /\ written[j].result \in Invs
         /\ invocations[written[j].result].req.id = written[j].id
         /\ invocations[written[j].result].status = "resolved"
  /\ \A t \in Tasks :
       /\ AwaitsPending(t)
       /\ \A k \in Finished(t) : IsRequestLine(t, k) => AnsweredNormally(t, k)

\* as long as no handler hangs, every request line the host received is
\* eventually answered
C5_Eventually ==
  \A t \in 1..(2 * MaxSend), k \in 1..MaxSend :
    ReceivedRequest(t, k) ~>
      (HangExists \/ (ReceivedRequest(t, k) /\ k < tasks[t].pos))

\* C5: every request the host received is answered exactly once, by its
\* own id and with the outcome of its own invocation, whatever the order
\* in which the handlers complete.
C5_AnsweredOnceById == []C5_Correlation /\ C5_Eventually

\* two requests were in flight together and the later one was answered
\* first
C5_Witness ==
  \E i, j \in Invs :
    /\ i < j
    /\ invocations[i].status = "resolved"
    /\ invocations[j].status = "resolved"
    /\ \E a \in ResponsesTo(invocations[i].req.id) :
         \E b \in ResponsesTo(invocations[j].req.id) : b < a

(***************************************************************************)
(* C6.  A response to a dispatched request is on the socket only after the *)
(* handler invoked for that request has settled.                           *)
(***************************************************************************)
C6_ResponseAfterSettle ==
  \A i \in Invs :
    ResponsesTo(invocations[i].req.id) # {} =>
      invocations[i].status # "pending"

\* a handler has resolved and its response is written while another
\* handler is still running
C6_Witness ==
  \E i, j \in Invs :
    /\ invocations[i].status = "resolved"
    /\ ResponsesTo(invocations[i].req.id) # {}
    /\ invocations[j].status = "pending"

(***************************************************************************)
(* C7.  A handler that throws or rejects with message m: its request gets  *)
(* exactly one response, a JSON-RPC error with message m and no result;    *)
(* the host keeps the connection open, the loop of that chunk goes on, and *)
(* every request sent after it that the host has handled was dispatched    *)
(* and answered normally.                                                  *)
(***************************************************************************)
C7_HandlerError ==
  \A i \in Invs :
    invocations[i].status = "rejected" =>
      /\ Cardinality(ResponsesTo(invocations[i].req.id)) = 1
      /\ \A j \in ResponsesTo(invocations[i].req.id) :
           /\ written[j].kind = "error"
           /\ written[j].message = HandlerErrorMessage
           /\ written[j].result \notin Invs
      /\ conn = "open"
      /\ AwaitsPending(invocations[i].task)
      /\ \A t \in Tasks : \A k \in Finished(t) :
           (IsRequestLine(t, k)
              /\ tasks[t].lines[k].msg.id > invocations[i].req.id) =>
             AnsweredNormally(t, k)

\* after the error response, the next request of the same chunk was
\* dispatched and got its result
C7_Witness ==
  \E i, i2 \in Invs :
    /\ invocations[i].status = "rejected"
    /\ invocations[i2].status = "resolved"
    /\ invocations[i2].task = invocations[i].task
    /\ invocations[i2].line > invocations[i].line
    /\ \E a \in ResponsesTo(invocations[i].req.id) :
         \E b \in ResponsesTo(invocations[i2].req.id) :
           /\ a < b
           /\ written[a].message = HandlerErrorMessage
           /\ written[b].kind = "result"

(***************************************************************************)
(* C8.  Every line the loop has handled that is not valid JSON produced    *)
(* exactly one response, the error -32700 "Parse error" with id null; the  *)
(* host keeps the connection open, no loop stops at such a line, and the   *)
(* well-formed lines handled after it, in the same chunk or a later one,   *)
(* were dispatched and answered normally.                                  *)
(***************************************************************************)
UnparsedLines ==
  { << t, k >> \in Tasks \X (1..(2 * MaxSend)) :
      k \in Finished(t) /\ ~IsRequestLine(t, k) }

ParseErrors == { j \in 1..Len(written) : written[j].code = ParseErrorCode }

C8_ParseError ==
  /\ Cardinality(ParseErrors) = Cardinality(UnparsedLines)
  /\ \A j \in ParseErrors :
       /\ written[j].id = NullId
       /\ written[j].kind = "error"
       /\ written[j].message = "Parse error"
  /\ conn = "open"
  /\ \A t \in Tasks : AwaitsPending(t)
  /\ \A u \in UnparsedLines :
       \A t \in Tasks : \A k \in Finished(t) :
         (IsRequestLine(t, k) /\ (t > u[1] \/ (t = u[1] /\ k > u[2]))) =>
           AnsweredNormally(t, k)

\* a chunk held a line that is not JSON and then a request, and the
\* request got its result after the parse error
C8_Witness ==
  \E t \in Tasks : \E i \in Invs :
    /\ Len(tasks[t].lines) = 2
    /\ tasks[t].lines[1] = [part |-> "whole", msg |-> Garbage]
    /\ invocations[i].task = t
    /\ invocations[i].line = 2
    /\ invocations[i].status = "resolved"
    /\ written = << ParseErrorResponse,
                    ResultResponse(invocations[i].req.id, i) >>

(***************************************************************************)
(* C9.  Framing reassembles a line that arrives cut over two chunks: when  *)
(* the client has written well-formed requests only, no parse error is     *)
(* produced, however the stream cuts them into chunks.                     *)
(***************************************************************************)
C9_Reassembly ==
  (\A n \in 1..Len(sent) : sent[n].kind = "req") =>
    \A j \in 1..Len(written) : written[j].code # ParseErrorCode

(***************************************************************************)
(* C10.  A handler that never completes holds up only its own response:    *)
(* once every handler that is going to settle has settled, every request   *)
(* line the host received has been dispatched, and only those whose own    *)
(* handler hangs are unanswered.                                           *)
(***************************************************************************)
C10_HungHoldsOnlyItself ==
  (\A i \in Invs :
      invocations[i].status = "pending" => invocations[i].will = "hang") =>
    \A t \in Tasks : \A k \in 1..Len(tasks[t].lines) :
      IsRequestLine(t, k) => k <= tasks[t].pos

(***************************************************************************)
(* C11.  N requests sent one after another on one connection: handlers are *)
(* invoked in the order the requests were sent, and once everything sent   *)
(* has been delivered and every loop has ended, there are exactly N        *)
(* invocations and exactly N responses, the n-th request answered with its *)
(* id and the outcome of the n-th invocation.                              *)
(***************************************************************************)
SentCallable ==
  /\ \A n \in 1..Len(sent) : sent[n].kind = "req" /\ Verifies(sent[n].p0)
  /\ \A j \in 1..Len(written) : written[j].code # MethodNotFoundCode

Quiescent ==
  /\ nDel = Len(sent)
  /\ ~carry
  /\ \A t \in Tasks : tasks[t].pos > Len(tasks[t].lines)

C11_Sequential ==
  /\ \A i, j \in Invs :
       i < j => invocations[i].req.id < invocations[j].req.id
  /\ (SentCallable /\ Quiescent) =>
       /\ Len(invocations) = Len(sent)
       /\ Len(written) = Len(sent)
       /\ \A n \in 1..Len(sent) :
            /\ invocations[n].req = sent[n]
            /\ \E j \in 1..Len(written) :
                 written[j] = SettledResponse(invocations[n], n,
                                IF invocations[n].status = "resolved"
                                THEN "resolve" ELSE "reject")

(***************************************************************************)
(* C12.  registerTool may be called before or after start(): a registered  *)
(* tool is callable by the next request whatever the lifecycle state it    *)
(* was registered in, and once the host is started and every tool is       *)
(* registered each request is answered as it is when all registrations     *)
(* preceded start().                                                       *)
(***************************************************************************)
\* the method table when every tool was registered before start()
FullTable ==
  [f \in FunctionNames |-> (CHOOSE d \in Descriptors : d[2] = f)[1]]

ProbeTokens ==
  { createJWT(secret, c) : c \in { b[2] : b \in BundleRequests } }
    \cup BadParams
ProbeRequests ==
  { Request(1, f, p0) : f \in FunctionNames, p0 \in ProbeTokens }

C12_RegisterAnyTime ==
  /\ \A t \in RegisteredTools :
       \A b \in BundleRequests :
         LET r == Receive(Request(1, toolsConfig[t],
                                  createJWT(secret, b[2])), methods)
         IN  r.act = "await" /\ r.handler = t
  /\ (host.isStarted /\ RegisteredTools = ToolNames) =>
       \A request \in ProbeRequests :
         Receive(request, methods) = Receive(request, FullTable)

\* the host listens, and a tool that was not registered when the listen
\* callback ran is registered and callable now
C12_Witness ==
  /\ host.isStarted
  /\ RegisteredTools = ToolNames
  /\ \E s \in 1..Len(host.servers) :
       /\ host.servers[s].status = "listening"
       /\ host.servers[s].availableTools # ToolNames

(***************************************************************************)
(* C13.  start() succeeds only from the Created state: a start() call made *)
(* while the host is Starting, Listening, Stopping or Stopped fails with   *)
(* the "already started" error and creates no socket server.               *)
(***************************************************************************)
C13_StartOnlyFromCreated ==
  \A k \in 1..Len(host.starts) :
    host.starts[k].from # "Created" =>
      /\ host.starts[k].server = 0
      /\ host.starts[k].status = "rejected"
      /\ host.starts[k].reason = AlreadyStarted

(***************************************************************************)
(* C14.  stop() called in any state other than Listening is a no-op: it    *)
(* resolves at once and does not call close on the socket server.          *)
(***************************************************************************)
C14_StopNoOp ==
  \A k \in 1..Len(host.stops) :
    host.stops[k].from # "Listening" =>
      /\ host.stops[k].server = 0
      /\ host.stops[k].status = "resolved"

(***************************************************************************)
(* C15.  stop() always settles.  A stop() that called close on the         *)
(* listening socket server of a Listening host is resolved when the close  *)
(* has completed, or rejected with the timeout error when the timeout      *)
(* fired first, and the timeout marks the host not started; no stop()      *)
(* promise stays pending forever.                                          *)
(***************************************************************************)
StopOnListening(k) ==
  /\ host.stops[k].from = "Listening"
  /\ host.stops[k].server # 0
  /\ ~host.stops[k].notRunning

C15_Outcomes ==
  \A k \in 1..Len(host.stops) :
    StopOnListening(k) =>
      /\ host.stops[k].status = "resolved" =>
           /\ host.servers[host.stops[k].server].status = "closed"
           /\ host.stops[k].timer = "cleared"
      /\ host.stops[k].status = "rejected" =>
           /\ host.stops[k].reason = StopTimeout
           /\ host.stops[k].timer = "fired"

C15_TimeoutMarksStopped ==
  \A k \in 1..MaxStop :
    (/\ k <= Len(host.stops)
     /\ host.stops[k].timer = "armed"
     /\ host'.stops[k].timer = "fired") => ~host'.isStarted

C15_Settles ==
  \A k \in 1..MaxStop :
    (k <= Len(host.stops)) ~>
      (k <= Len(host.stops) /\ host.stops[k].status # "pending")

\* C15: stop() on a Listening host always settles, by the completed close
\* or by the timeout that marks the host stopped and rejects.
C15_StopSettles ==
  /\ []C15_Outcomes
  /\ [][C15_TimeoutMarksStopped]_vars
  /\ C15_Settles

\* one stop() on a Listening host was rejected by its timeout and another
\* one was resolved by the close callback
C15_Witness ==
  \E k, l \in 1..Len(host.stops) :
    /\ StopOnListening(k) /\ StopOnListening(l)
    /\ host.stops[k].status = "rejected"
    /\ host.stops[l].status = "resolved"

(***************************************************************************)
(* C16.  When binding fails, start() rejects with the bind error and the   *)
(* host is left in its pre-start state: it is not marked started, and a    *)
(* start() called in that state is accepted.                               *)
(***************************************************************************)
C16_BindFailure ==
  /\ \A k \in 1..Len(host.starts) :
       /\ (host.starts[k].server # 0
           /\ host.servers[host.starts[k].server].status = "failed") =>
            /\ host.starts[k].status = "rejected"
            /\ host.starts[k].reason = BindFailed
       /\ host.starts[k].from = "Created" => host.starts[k].server # 0
  /\ (\A s \in 1..Len(host.servers) : host.servers[s].status = "failed") =>
       ~host.isStarted

\* a bind failed and the start() called after it was accepted and listens
C16_Witness ==
  \E k \in 2..Len(host.starts) :
    /\ host.starts[k - 1].server # 0
    /\ host.servers[host.starts[k - 1].server].status = "failed"
    /\ host.starts[k].from = "Created"
    /\ host.starts[k].status = "resolved"

(***************************************************************************)
(* C17.  For every list of tool names S and every context,                 *)
(* getMCPServerEnvVars(S, context) returns a TOOLS value that parses to a  *)
(* mapping whose keys are exactly the names in S that are registered, each *)
(* mapped to the tool's current descriptor; names of S that are not        *)
(* registered are left out.                                                *)
(***************************************************************************)
RequestableNames == ToolNames \cup InheritedNames

C17_ToolsSubset ==
  \A S \in SUBSET RequestableNames :
    \A b \in BundleRequests :
      LET parsed == JsonParseTools(EnvVars(S, b[2]).TOOLS)
      IN  /\ DOMAIN parsed = S \cap RegisteredTools
          /\ \A t \in DOMAIN parsed :
               /\ parsed[t].functionName = toolsConfig[t]
               /\ parsed[t] = ToolProperties(t, toolsConfig[t])

\* a bundle was requested for a registered tool together with one that is
\* not registered, and its TOOLS holds the registered one only
C17_Witness ==
  \E b \in minted :
    /\ b.tools \cap RegisteredTools # {}
    /\ b.tools \ RegisteredTools # {}
    /\ DOMAIN JsonParseTools(EnvVars(b.tools, b.context).TOOLS)
         = b.tools \cap RegisteredTools

(***************************************************************************)
(* Vocabulary of the claims about the bridge.                              *)
(***************************************************************************)
BridgeCalls == 1..Len(bridge.calls)
Settled(c) == bridge.calls[c].status # "pending"

(***************************************************************************)
(* C18.  When the RPC call of a tool invocation fails with message m, the  *)
(* invocation does not throw: it returns a result whose content is exactly *)
(* one text item with the text "Error calling <functionName>: m".          *)
(***************************************************************************)
C18_ErrorAsResult ==
  \A c \in BridgeCalls :
    /\ bridge.calls[c].status # "threw"
    /\ (Settled(c) /\ bridge.calls[c].response.kind = "error") =>
         /\ bridge.calls[c].status = "returned"
         /\ bridge.calls[c].content =
              << [type |-> "text",
                  text |-> "Error calling " \o BridgeTools[bridge.calls[c].tool]
                           \o ": " \o bridge.calls[c].response.message] >>

\* the host answered a tool's request with its handler's error and the
\* invocation has returned
C18_Witness ==
  \E c \in BridgeCalls :
    /\ bridge.calls[c].status = "returned"
    /\ bridge.calls[c].response = RpcError(bridge.calls[c].id,
                                           HandlerErrorMessage)
    /\ bridge.calls[c].content =
         << [type |-> "text", text |-> "Error calling fnA: Custom error"] >>

C20_OverlappingCalls ==
  \A c \in BridgeCalls :
    LET call == bridge.calls[c] IN
    /\ \A c2 \in BridgeCalls : c2 # c => bridge.calls[c2].id # call.id
    /\ Settled(c) =>
         /\ call.answer # NoResponse
         /\ call.response = call.answer
         /\ call.response.id = call.id
         /\ call.content = ToolOutcome(call.functionName, call.answer).content
    /\ (call.answer # NoResponse
        /\ call.answer \notin bridge.wire
        /\ call.answer \notin bridge.dropped) => Settled(c)

\* three invocations were in flight together, the responses arrived in the
\* reverse order, and each has returned
C20_Witness ==
  /\ Len(bridge.calls) = MaxCall
  /\ \A c \in BridgeCalls :
       /\ bridge.calls[c].status = "returned"
       /\ bridge.calls[c].response.kind = "result"
       /\ bridge.calls[c].order = MaxCall + 1 - c

(***************************************************************************)
(* C25.  A request whose first positional parameter is not a string is     *)
(* failed with a descriptive type error returned as a JSON-RPC error       *)
(* response carrying the request's id: the value is not handed to token    *)
(* verification and no handler is invoked.                                 *)
(***************************************************************************)
TypeErrorMessage == "Expected JWT token as string, got number"

C25_NonStringToken ==
  \A t \in Tasks : \A k \in Finished(t) :
    (IsRequestLine(t, k) /\ tasks[t].lines[k].msg.p0.t = "num") =>
      LET req == tasks[t].lines[k].msg IN
      /\ InvocationsFor(t, k) = {}
      /\ Cardinality(ResponsesTo(req.id)) = 1
      /\ \A j \in ResponsesTo(req.id) :
           \/ written[j] = ErrorResponse(req.id, MethodNotFoundCode,
                                         "Method not found")
           \/ written[j] = ErrorResponse(req.id, DefaultErrorCode,
                                         TypeErrorMessage)

\* a request for a registered method with a number in the place of the
\* token was answered with the type error
C25_Witness ==
  \E t \in Tasks : \E k \in Finished(t) :
    /\ IsRequestLine(t, k)
    /\ tasks[t].lines[k].msg.p0 = NonString
    /\ \E j \in ResponsesTo(tasks[t].lines[k].msg.id) :
         written[j] = ErrorResponse(tasks[t].lines[k].msg.id,
                                    DefaultErrorCode, TypeErrorMessage)

(***************************************************************************)
(* C21.  Bridge start-up is all-or-nothing: when CONTEXT_TOKEN, TOOLS or   *)
(* PIPE is absent, or TOOLS is not valid JSON, the process never gets as   *)
(* far as creating the socket or registering a tool, and when it has       *)
(* failed, it has failed with an error that names a missing variable or    *)
(* says that TOOLS must be valid JSON, and with a non-zero exit code.      *)
(***************************************************************************)
EnvNames == {"CONTEXT_TOKEN", "TOOLS", "PIPE"}
EnvValid(env) ==
  /\ \A n \in EnvNames : Truthy(env[n])
  /\ ParsesAsJson(env.TOOLS)
StartupErrors(env) ==
  { RequiredMessage(n) : n \in { m \in EnvNames : ~Truthy(env[m]) } }
    \cup (IF env.TOOLS.given /\ ~ParsesAsJson(env.TOOLS)
          THEN {InvalidToolsMessage} ELSE {})

C22_SocketEventFatal ==
  /\ [](proc.event # "" =>
          /\ proc.pc = "exited"
          /\ proc.exitCode # 0
          /\ proc.socket = "closed")
  /\ [][proc.pc = "exited" => (proc' = proc /\ bridge' = bridge)]_vars

\* the socket closed while a request was pending: the process has exited
C22_Witness ==
  /\ proc.event = "close"
  /\ proc.pc = "exited"
  /\ proc.exitCode = ExitFailure
  /\ \E c \in BridgeCalls : ~Settled(c)

(***************************************************************************)
(* C23.  In the bridge a line that is not valid JSON is ignored: the       *)
(* request whose response line was lost that way stays pending, it is      *)
(* neither resolved nor failed, and every response line that arrived       *)
(* whole, in the same chunk behind such a line or in another chunk, has    *)
(* settled the request with its id.                                        *)
(***************************************************************************)
C23_ParseErrorIgnored ==
  \A c \in BridgeCalls :
    LET call == bridge.calls[c] IN
    /\ call.answer \in bridge.dropped => call.status = "pending"
    /\ (/\ call.answer # NoResponse
        /\ call.answer \notin bridge.wire
        /\ call.answer \notin bridge.dropped)
         => (call.status # "pending" /\ call.response = call.answer)

\* a response was delivered from a chunk behind a line that did not parse,
\* and the request of the lost line is still pending
C23_Witness ==
  \E c, d \in BridgeCalls :
    /\ bridge.calls[c].skipped = 1
    /\ bridge.calls[c].status = "returned"
    /\ bridge.calls[c].response = bridge.calls[c].answer
    /\ bridge.calls[d].answer \in bridge.dropped
    /\ bridge.calls[d].status = "pending"

(***************************************************************************)
(* C24.  Writing a reply on the host never throws and never takes down     *)
(* the process when the client socket has become unwritable: writability   *)
(* is checked first and the reply is dropped, so that no reply is ever     *)
(* handed to socket.write on a socket that is not writable.                *)
(***************************************************************************)
C24_WritabilityChecked ==
  \A c \in Conns : conns.sockets[c].failed = << >>

(***************************************************************************)
(* C26.  Connections to the host are independent: what is written on a     *)
(* connection are exactly the responses to the lines that arrived on it,   *)
(* one per line handled, and the loop of a "data" event waits for nothing  *)
(* but the handler its own current line has called, whatever is pending,   *)
(* hung, failed or disconnected on the other connections.                  *)
(***************************************************************************)
ConnOut(c) == conns.sockets[c].written \o conns.sockets[c].failed
ConnTasks(c) == 1..Len(conns.sockets[c].tasks)
ConnHandled(c) ==
  { << t, k >> \in ConnTasks(c) \X (1..2) :
      k < conns.sockets[c].tasks[t].pos }
ConnLineAt(c, tk) == conns.sockets[c].tasks[tk[1]].lines[tk[2]]
\* the responses the line tk of connection c can have got
ConnExpected(c, tk) ==
  LET line == ConnLineAt(c, tk) IN
  IF ~JsonParses(line) THEN {ParseErrorResponse}
  ELSE IF methods[line.msg.method] = Absent
  THEN {ErrorResponse(line.msg.id, MethodNotFoundCode, "Method not found")}
  ELSE { SettledResponse(conns.invocations[i], i,
                         IF conns.invocations[i].status = "resolved"
                         THEN "resolve" ELSE "reject") :
           i \in { j \in DOMAIN conns.invocations :
                     /\ conns.invocations[j].conn = c
                     /\ conns.invocations[j].task = tk[1]
                     /\ conns.invocations[j].line = tk[2]
                     /\ conns.invocations[j].status # "pending" } }

C26_Independent ==
  \A c \in Conns :
    /\ Len(ConnOut(c)) = Cardinality(ConnHandled(c))
    /\ \A n \in 1..Len(ConnOut(c)) :
         \E tk \in ConnHandled(c) : ConnOut(c)[n] \in ConnExpected(c, tk)
    /\ \A tk \in ConnHandled(c) :
         \E n \in 1..Len(ConnOut(c)) : ConnOut(c)[n] \in ConnExpected(c, tk)
    /\ \A t \in ConnTasks(c) :
         LET task == conns.sockets[c].tasks[t] IN
         task.pos <= Len(task.lines) =>
           \E i \in DOMAIN conns.invocations :
             /\ conns.invocations[i].conn = c
             /\ conns.invocations[i].task = t
             /\ conns.invocations[i].line = task.pos
             /\ conns.invocations[i].status = "pending"

\* one connection holds a hung request and has lost its client; a request
\* dispatched later on the other connection, with the same id, has its
\* result written there
C26_Witness ==
  \E c, d \in Conns :
    /\ c # d
    /\ ~conns.sockets[c].open
    /\ \E i, j \in DOMAIN conns.invocations :
         /\ i < j
         /\ conns.invocations[i].conn = c
         /\ conns.invocations[i].will = "hang"
         /\ conns.invocations[j].conn = d
         /\ conns.invocations[j].req.id = conns.invocations[i].req.id
         /\ conns.invocations[j].status = "resolved"
         /\ \E n \in 1..Len(conns.sockets[d].written) :
              conns.sockets[d].written[n] =
                ResultResponse(conns.invocations[j].req.id, j)

(***************************************************************************)
(* C27.  Every RPC call issued by the bridge is eventually settled while   *)
(* the bridge process lives: a call that has been issued leads to a state  *)
(* where it is settled or the process has exited.                          *)
(***************************************************************************)
C27_EventuallySettled ==
  \A c \in 1..MaxCall :
    (c \in BridgeCalls) ~>
      ((c \in BridgeCalls /\ Settled(c)) \/ proc.pc = "exited")

(***************************************************************************)
(* C28.  After any sequence of registerTool calls the registry holds, for  *)
(* each tool name, the descriptor of the most recent call under that name, *)
(* and a request for a function name is dispatched to one handler, the one *)
(* passed in the most recent call whose descriptor had that function name. *)
(***************************************************************************)
CallsFor(toolName) ==
  { i \in DOMAIN registrations : registrations[i][1] = toolName }
CallsWith(functionName) ==
  { i \in DOMAIN registrations : registrations[i][2] = functionName }
Latest(S) == CHOOSE i \in S : \A j \in S : j <= i

C28_MostRecentWins ==
  /\ \A t \in ToolNames :
       toolsConfig[t] = IF CallsFor(t) = {} THEN Absent
                        ELSE registrations[Latest(CallsFor(t))][2]
  /\ \A f \in FunctionNames :
       \A b \in BundleRequests :
         LET r == Receive(Request(1, f, createJWT(secret, b[2])), methods)
         IN  IF CallsWith(f) = {}
             THEN r.act = "respond" /\ r.response.code = MethodNotFoundCode
             ELSE /\ r.act = "await"
                  /\ r.handler = registrations[Latest(CallsWith(f))][1]

\* a tool was registered again under another function name, and a function
\* name was registered again with the handler of another tool
C28_Witness ==
  /\ \E i, j \in DOMAIN registrations :
       /\ i < j
       /\ registrations[i][1] = registrations[j][1]
       /\ registrations[i][2] # registrations[j][2]
  /\ \E i, j \in DOMAIN registrations :
       /\ i < j
       /\ registrations[i][2] = registrations[j][2]
       /\ registrations[i][1] # registrations[j][1]
       /\ j = Latest(CallsWith(registrations[j][2]))
       /\ methods[registrations[j][2]] = registrations[j][1]

(***************************************************************************)
(* C29.  getMCPServerConfig resolves the launch command: without a command *)
(* the result is "npx" with the default args and options.args is ignored;  *)
(* a string command is the command, with args starting empty; of a         *)
(* non-empty array the first element is the command and the rest are the   *)
(* args; an empty array gives the default command and args as if no        *)
(* command had been given; options.args is appended only when a command    *)
(* was provided.                                                           *)
(***************************************************************************)
ExpectedLaunch(options) ==
  LET command == options.command
      extra == IF options.args.given THEN options.args.items ELSE << >>
  IN  IF command.kind = "string" /\ command.s # ""
      THEN [command |-> command.s, args |-> extra]
      ELSE IF command.kind = "array" /\ command.items # << >>
      THEN [command |-> Head(command.items),
            args |-> Tail(command.items) \o extra]
      ELSE [command |-> DefaultCommand, args |-> DefaultArgs]

C29_CommandResolution ==
  (launch.called /\ ~launch.result.threw) =>
    /\ launch.result.command = ExpectedLaunch(launch.options).command
    /\ launch.result.args = ExpectedLaunch(launch.options).args

(***************************************************************************)
(* C30.  The env returned by getMCPServerConfig has DEBUG = "1" exactly    *)
(* when options.debug is true; otherwise it has only CONTEXT_TOKEN, PIPE   *)
(* and TOOLS, whatever the other options are.                              *)
(***************************************************************************)
C30_DebugFlag ==
  (launch.called /\ ~launch.result.threw) =>
    LET env == launch.result.env IN
    /\ DOMAIN env \ {"DEBUG"} = {"CONTEXT_TOKEN", "PIPE", "TOOLS"}
    /\ ("DEBUG" \in DOMAIN env) <=> (launch.options.debug = "true")
    /\ "DEBUG" \in DOMAIN env => env["DEBUG"] = "1"

(***************************************************************************)
(* C31.  Converting an object schema node yields properties with exactly   *)
(* the declared field keys, required containing exactly the keys of the    *)
(* fields that are not behind an optional or default wrapper, and          *)
(* additionalProperties false; the same holds for every nested object      *)
(* node.                                                                   *)
(***************************************************************************)
RECURSIVE Unwrapped(_)
Unwrapped(node) ==
  IF node.typeName \in {"ZodOptional", "ZodDefault"}
  THEN Unwrapped(node.innerType[1])
  ELSE node

DeclaredKeys(node) == { node.shape[i].key : i \in 1..Len(node.shape) }
FieldOf(node, k) ==
  node.shape[CHOOSE i \in 1..Len(node.shape) : node.shape[i].key = k].value

RECURSIVE ObjectTranslated(_, _)
ObjectTranslated(node, json) ==
  (node.typeName = "ZodObject") =>
    /\ json.type = "object"
    /\ DOMAIN json.properties = DeclaredKeys(node)
    /\ { json.required[i] : i \in 1..Len(json.required) } =
         { k \in DeclaredKeys(node) :
             FieldOf(node, k).typeName \notin {"ZodOptional", "ZodDefault"} }
    /\ Len(json.required) <= Cardinality(DeclaredKeys(node))
    /\ json.additionalProperties = "false"
    /\ \A k \in DeclaredKeys(node) :
         ObjectTranslated(Unwrapped(FieldOf(node, k)), json.properties[k])

\* C31: a converted object schema has the declared keys as properties, the
\* keys of the fields that are not optional as required, and
\* additionalProperties false, at every level of nesting.
C31_ObjectSchema ==
  (schema.called /\ ~schema.threw /\ isZodSchema(schema.inputSchema)) =>
    ObjectTranslated(Unwrapped(schema.inputSchema), schema.toolsConfig[1])

\* an object with an optional field and a required field that is itself an
\* object with a required field was converted: only the second key is
\* required
C31_Witness ==
  /\ schema.called /\ ~schema.threw
  /\ schema.inputSchema.typeName = "ZodObject"
  /\ \E a, b \in DeclaredKeys(schema.inputSchema) :
       /\ FieldOf(schema.inputSchema, a).typeName = "ZodOptional"
       /\ FieldOf(schema.inputSchema, b).typeName = "ZodObject"
       /\ \E k \in DeclaredKeys(FieldOf(schema.inputSchema, b)) :
            schema.toolsConfig[1].properties[b].required = << k >>
       /\ schema.toolsConfig[1].required = << b >>

(***************************************************************************)
(* C32.  Schema translation at registration never throws: a node of a kind *)
(* that is not recognized becomes the unconstrained string schema, and so  *)
(* does a malformed node (a field value without the type tag, an object    *)
(* node without its shape), so registerTool completes and the tool is      *)
(* registered.                                                             *)
(***************************************************************************)
C32_NeverThrows ==
  schema.called =>
    /\ ~schema.threw
    /\ schema.toolsConfig # << >>
    /\ schema.method

(***************************************************************************)
(* C33.  The bridge exposes exactly one tool per entry of the parsed TOOLS *)
(* mapping, named by the entry's key, and no other tool; every invocation  *)
(* sends one request whose method is the entry's functionName and whose    *)
(* params are [CONTEXT_TOKEN, args], with the same token on every call.    *)
(***************************************************************************)
ParsedTools == JsonParseTools(proc.env.TOOLS.json)

C33_ExposedTools ==
  /\ proc.pc = "running" => proc.registered = DOMAIN ParsedTools
  /\ \A c \in 1..Len(bridge.calls) :
       /\ bridge.calls[c].tool \in DOMAIN ParsedTools
       /\ bridge.calls[c].functionName =
            ParsedTools[bridge.calls[c].tool].functionName
       /\ Len(bridge.calls[c].params) = 2
       /\ bridge.calls[c].params[1] = proc.env.CONTEXT_TOKEN.text
       /\ \A d \in 1..Len(bridge.calls) :
            /\ bridge.calls[d].params[1] = bridge.calls[c].params[1]
            /\ (d # c) => bridge.calls[d].id # bridge.calls[c].id

\* a bridge configured with one of the two tools has been invoked twice
C33_Witness ==
  /\ proc.pc = "running"
  /\ proc.registered = {"toolB"}
  /\ Len(bridge.calls) >= 2
  /\ bridge.calls[1].functionName = "fnB"
  /\ bridge.calls[2].params = << "token2", "args" >>

(***************************************************************************)
(* C34.  A host never has more than one socket server that it created and  *)
(* has not closed: whatever the interleaving of start() calls, at most one *)
(* server is bound to pipePath, and the server the host refers to is the   *)
(* one listening there.                                                    *)
(***************************************************************************)
Unclosed ==
  { s \in 1..Len(host.servers) :
      host.servers[s].status \in {"binding", "listening", "closing"} }

C34_OneServer ==
  /\ Cardinality(Unclosed) <= 1
  /\ \A s \in 1..Len(host.servers) :
       host.servers[s].status = "listening" => host.socketServer = s

(***************************************************************************)
(* C35.  The started flag agrees with the current server: whenever the     *)
(* host's current socket server is listening, isStarted is true and the    *)
(* socket file at pipePath exists; the late completion of the close of a   *)
(* stop() that timed out neither clears isStarted nor removes the socket   *)
(* file of a server started since.                                         *)
(***************************************************************************)
C35_FlagAgrees ==
  (/\ host.socketServer # 0
   /\ host.servers[host.socketServer].status = "listening") =>
    /\ host.isStarted
    /\ host.socketFile # 0

(***************************************************************************)
(* C36.  When a stop() call made on a Listening host settles, resolved,    *)
(* rejected by the timeout or rejected with the error of close, the host   *)
(* is marked not started.                                                  *)
(***************************************************************************)
C36_Settling ==
  \A k \in 1..MaxStop :
    (/\ k <= Len(host.stops)
     /\ host.stops[k].from = "Listening"
     /\ host.stops[k].server # 0
     /\ host.stops[k].status = "pending"
     /\ host'.stops[k].status # "pending") => ~host'.isStarted

C36_StoppedAfterStop == [][C36_Settling]_vars

(***************************************************************************)
(* C40.  stop() resolves only after every accepted connection has closed:  *)
(* while the close is in flight no new connection is accepted, requests on *)
(* open connections are still served, and while a connection stays open    *)
(* the close does not complete and stop() ends by the timeout rejection,   *)
(* after which the open connections are still served although the host is  *)
(* marked stopped.                                                         *)
(***************************************************************************)
ClosingStop(k) ==
  /\ k <= Len(host.stops)
  /\ host.stops[k].server # 0
  /\ ~host.stops[k].notRunning

C40_ResolvedWhenClosed ==
  \A k \in 1..MaxStop :
    ClosingStop(k) =>
      /\ host.stops[k].status = "resolved" =>
           OpenConnections(host.stops[k].server) = {}
      /\ OpenConnections(host.stops[k].server) # {} =>
           /\ host.servers[host.stops[k].server].status = "closing"
           /\ host.stops[k].status = "rejected" =>
                host.stops[k].reason = StopTimeout

C40_NoAcceptWhileClosing ==
  Len(host'.connections) > Len(host.connections) =>
    LET c == host'.connections[Len(host'.connections)]
    IN  /\ host.servers[c.server].status = "listening"
        /\ \A k \in 1..Len(host.stops) : host.stops[k].server # c.server

C40_EndsByTimeout ==
  \A k \in 1..MaxStop :
    (ClosingStop(k) /\ host.stops[k].status = "pending") ~>
      \/ ClosingStop(k) /\ host.stops[k].status = "resolved"
           /\ OpenConnections(host.stops[k].server) = {}
      \/ ClosingStop(k) /\ host.stops[k].status = "rejected"
           /\ host.stops[k].reason = StopTimeout

\* C40: stop() resolves only once the connections of the server have
\* closed, and ends by the timeout while one stays open.
C40_StopWaitsForConnections ==
  /\ []C40_ResolvedWhenClosed
  /\ [][C40_NoAcceptWhileClosing]_vars
  /\ C40_EndsByTimeout

\* a stop() was rejected by the timeout while a connection of its server
\* was open; the connection is still open and had requests served while
\* the close was in flight and while the host was marked not started
C40_Witness ==
  \E k \in 1..Len(host.stops), c \in 1..Len(host.connections) :
    /\ ClosingStop(k)
    /\ host.stops[k].status = "rejected"
    /\ host.stops[k].reason = StopTimeout
    /\ host.connections[c].server = host.stops[k].server
    /\ host.connections[c].open
    /\ host.connections[c].servedClosing
    /\ host.connections[c].servedStopped
    /\ ~host.isStarted

(***************************************************************************)
(* C37.  Requests decoded from the same data chunk are handled one after   *)
(* another: the handler for a later line of the chunk is not invoked until *)
(* the response for the earlier line has been written, so the responses to *)
(* the requests of one chunk are written in request order; requests of     *)
(* different chunks may overlap.                                           *)
(***************************************************************************)
WrittenAt(i) ==
  { p \in 1..Len(written) :
      \E outcome \in HandlerOutcomes :
        written[p] = SettledResponse(invocations[i], i, outcome) }

C37_ChunkInOrder ==
  \A i, j \in Invs :
    (i < j /\ invocations[i].task = invocations[j].task) =>
      /\ invocations[i].line < invocations[j].line
      /\ invocations[i].status # "pending"
      /\ WrittenAt(i) # {}
      /\ \A p \in WrittenAt(i), q \in WrittenAt(j) : p < q

\* two requests of one chunk have both been answered, the first one first
C37_Witness ==
  \E i, j \in Invs :
    /\ i < j
    /\ invocations[i].task = invocations[j].task
    /\ WrittenAt(i) # {}
    /\ WrittenAt(j) # {}

(***************************************************************************)
(* C38.  After any sequence of registerTool calls the RPC method names the *)
(* host dispatches are exactly the functionName values of the descriptors  *)
(* in the registry: re-registering a toolName with another functionName    *)
(* leaves no handler reachable under the replaced functionName.            *)
(***************************************************************************)
C38_MethodsMatchRegistry ==
  { f \in FunctionNames : methods[f] # Absent } =
    { toolsConfig[t] : t \in RegisteredTools }

(***************************************************************************)
(* C39.  getMCPServerEnvVars and getMCPServerConfig are read-only with     *)
(* respect to host state: for any arguments, an empty server name that     *)
(* makes getMCPServerConfig throw included, they leave the tool registry,  *)
(* the handler table, the secret and the started flag unchanged, and a     *)
(* bundle already returned is not altered by later registerTool calls.     *)
(***************************************************************************)
C39_CallsReadOnly ==
  (minted' # minted \/ launch' # launch) =>
    /\ toolsConfig' = toolsConfig
    /\ methods' = methods
    /\ secret' = secret
    /\ host' = host
    /\ registrations' = registrations

C39_BundlesKept ==
  registrations' # registrations =>
    /\ minted' = minted
    /\ launch' = launch

\* C39: the two calls change nothing of the host, and registerTool changes
\* no bundle that was returned before.
C39_ReadOnly == [][C39_CallsReadOnly /\ C39_BundlesKept]_vars

\* on a listening host getMCPServerEnvVars and getMCPServerConfig have
\* returned, and the registry has changed since, so that the bundle in the
\* returned configuration differs from what the same call would give now
C39_Witness ==
  /\ minted # {}
  /\ launch.called
  /\ ~launch.result.threw
  /\ launch.result.env.TOOLS #
       JsonStringifyTools(FilteredTools(launch.tools, toolsConfig))
  /\ host.isStarted

====
